---- MODULE Spec2Model ----
(***************************************************************************)
(* The reflective agent (reflective_agent.py) and the life registry        *)
(* (reincarnation_manager.py) as a state machine over the work directory.  *)
(*                                                                         *)
(* The work directory holds lives/<name>/ (metadata.json, state.json,      *)
(* diary.jsonl), lives/index.json and the path my_space, which is absent,  *)
(* a symbolic link to a life directory, or a plain directory.              *)
(*                                                                         *)
(* Every file-system call of the registry and every statement of the       *)
(* agent that touches a file is one step, so that the registry and the     *)
(* agent, which are separate processes, interleave between their calls.    *)
(*                                                                         *)
(* The agent's constructor is modelled from line 29 on: the call at line   *)
(* 27 logs through self.log_file before line 47 assigns it, and the model  *)
(* takes that call as made harmless, since the agent's methods are what    *)
(* is verified here.                                                       *)
(***************************************************************************)
EXTENDS Integers, Sequences, FiniteSets, TLC

\* ------------------------------------------------------------------ bounds
\* total_lives is capped at MaxLives, the registry calls of a run at
\* MaxRegOps, the registry processes started at MaxRestarts.
MaxLives == 3
MaxRegOps == 4
MaxRestarts == 2

\* The agent: turns begun and processes started in one run of the model.
\* (An exception or an interrupt ends the process it is raised in, so
\* MaxRuns bounds them too.)
MaxTurns == 2
MaxRuns == 1

\* The agent processes started one after the other on the same life.
MaxLifeRuns == 2

\* The same, and the registry calls, where agent and registry run together.
MaxLoopTurns == 1
MaxLoopRuns == 2
MaxLoopOps == 2

\* the parser: segments of a response
MaxSegments == 3

\* The registry calls begun where two registry objects share a work
\* directory.
MaxSharedOps == 2

\* ------------------------------------------------------------------- names
Digits == <<"0", "1", "2", "3", "4", "5", "6", "7", "8", "9">>

\* f"life_{life_number:03d}"
AutoName(n) ==
    "life_" \o Digits[((n \div 100) % 10) + 1]
            \o Digits[((n \div 10) % 10) + 1]
            \o Digits[(n % 10) + 1]

\* name=None of create_life
NoName == "None"

\* The names a caller passes: one that is free-form and one that has the
\* shape of a derived default name.
NameInputs == {"alpha", "life_002"}

AllNames == NameInputs \cup {AutoName(n) : n \in 1..(MaxLives + 1)}

\* lives/index.json, as a name given where the name of a life is expected
IndexName == "index.json"

\* The registry objects: the command-line process and the dashboard's
\* module-level manager.
Insts == {"cli", "dash"}

\* ------------------------------------------------------------- file system
\* state.json as create_life writes it and _load_state defaults it;
\* last_action is 0 when it is None or missing
ZeroState ==
    [kind |-> "ok", iteration |-> 0, total_thoughts |-> 0, total_actions |-> 0,
     goals |-> <<>>, achievements |-> <<>>, last_action |-> 0]

\* no state.json
NoState ==
    [kind |-> "none", iteration |-> 0, total_thoughts |-> 0, total_actions |-> 0,
     goals |-> <<>>, achievements |-> <<>>, last_action |-> 0]

\* A line of diary.jsonl is the entry it holds, or BadLine when it is no
\* JSON text: what a process killed inside write_diary's write (line 109)
\* leaves behind, to which the next entry is then appended.
BadLine == [phase |-> "#malformed", iteration |-> 0]

\* json.loads(line) returns
ValidLine(line) == line # BadLine

\* seq[-n:] of Python for n >= 0: the whole sequence when n is 0
LastN(seq, n) ==
    IF n = 0 \/ Len(seq) <= n THEN seq ELSE SubSeq(seq, Len(seq) - n + 1, Len(seq))

\* a path under lives/ (or my_space) that does not exist
NoDir == [exists |-> FALSE, meta |-> 0, state |-> NoState,
          hasDiary |-> FALSE, diary |-> <<>>]

\* a directory right after mkdir
EmptyDir == [NoDir EXCEPT !.exists = TRUE]

\* a life directory holds metadata, a readable snapshot and a diary file
Initialised(d) ==
    d.exists /\ d.meta > 0 /\ d.state.kind = "ok" /\ d.hasDiary

\* the index _load_index returns when index.json is missing or unreadable
FreshIndex ==
    [kind |-> "ok", total_lives |-> 0, current_life |-> NoName,
     lives |-> [n \in {} |-> 0]]

NoIndexFile == [FreshIndex EXCEPT !.kind = "none"]

\* index.json opened for writing and not yet written: an empty file
TornIndexFile == [FreshIndex EXCEPT !.kind = "torn"]

VARIABLES
    lifeDirs,    \* [AllNames -> directory]: lives/<name>
    link,        \* my_space: [kind: absent | symlink | dir, target]
    legacyDir,   \* the content of my_space when it is a plain directory
    backups,     \* the my_space_backup_* directories, in order of renaming
    indexFile,   \* lives/index.json
    regIndex,    \* [Insts -> index]: self.index of each registry object
    regPc,       \* [Insts -> position inside the running registry call]
    regArg,      \* [Insts -> the running call: op, name, number, confirm]
    regRes,      \* [Insts -> the last finished call and its outcome]
    regPre,      \* [Insts -> what the last call found when it began]
    issued,      \* the numbers given to lives, in order of creation
    nOps,        \* registry calls begun
    nRestarts,   \* registry processes started after the first
    opCap,       \* the number of registry calls this run explores
    ag,          \* the agent process: position, self.state, locals of run
    turn,        \* what the turn in progress found when it began
    hist,        \* turns completed, failed and cut short; turns and runs begun;
                 \* the caps on them and the inputs this run explores
    agWrote      \* the directories this agent process has written to

fsVars == <<lifeDirs, link, legacyDir, backups, indexFile>>
regVars == <<regIndex, regPc, regArg, regRes, regPre, issued, nOps, nRestarts, opCap>>
agVars == <<ag, turn, hist, agWrote>>

NoLink == [kind |-> "absent", target |-> NoName]

\* Path.exists() on my_space: follows the link
LinkExists ==
    \/ link.kind = "dir"
    \/ link.kind = "symlink" /\ lifeDirs[link.target].exists

\* the directory my_space resolves to
LinkDir ==
    IF link.kind = "symlink" THEN lifeDirs[link.target]
    ELSE IF link.kind = "dir" THEN legacyDir
    ELSE NoDir

NoArg == [op |-> "none", name |-> NoName, number |-> 0, confirm |-> FALSE]
\* what a call gave: the outcome of create, switch and delete, the keys
\* compare_lives returned for the names asked, the entries read_life_diary
\* returned for name and limit
NoRes == [op |-> "none", name |-> NoName, number |-> 0, confirm |-> FALSE,
          outcome |-> "none", asked |-> {}, keys |-> {}, limit |-> 0,
          entries |-> <<>>]

Snapshot(i) ==
    [index |-> regIndex[i], indexFile |-> indexFile, link |-> link,
     lifeDirs |-> lifeDirs, legacyDir |-> legacyDir, backups |-> backups]

\* ---------------------------------------------------------------- registry
\* _load_index
LoadIndex ==
    IF indexFile.kind = "ok" THEN indexFile ELSE FreshIndex

\* the next number taken from the number of lives now indexed
NextLifeNumber_Count(idx) == Cardinality(DOMAIN idx.lives) + 1

\* _get_next_life_number
NextLifeNumber(idx) == idx.total_lives + 1

\* the name create_life uses
LifeNameFor(name, number) ==
    IF name = NoName THEN AutoName(number) ELSE name

\* self.index["lives"][name] = metadata
WithLife(lives, name, number) ==
    [n \in (DOMAIN lives) \cup {name} |-> IF n = name THEN number ELSE lives[n]]

\* del self.index["lives"][life_name]
WithoutLife(lives, name) ==
    [n \in (DOMAIN lives) \ {name} |-> lives[n]]

Finish(i, outcome) ==
    /\ regPc' = [regPc EXCEPT ![i] = "idle"]
    /\ regRes' = [regRes EXCEPT ![i] =
                    [NoRes EXCEPT !.op = regArg[i].op, !.name = regArg[i].name,
                                  !.number = regArg[i].number,
                                  !.confirm = regArg[i].confirm,
                                  !.outcome = outcome]]
    /\ regArg' = [regArg EXCEPT ![i] = NoArg]

Goto(i, pc) ==
    /\ regPc' = [regPc EXCEPT ![i] = pc]
    /\ UNCHANGED <<regArg, regRes>>

\* A new registry process: __init__ loads index.json.
RegRestart(i) ==
    /\ regPc[i] = "idle"
    /\ nRestarts < MaxRestarts
    /\ nRestarts' = nRestarts + 1
    /\ regIndex' = [regIndex EXCEPT ![i] = LoadIndex]
    /\ regRes' = [regRes EXCEPT ![i] = NoRes]
    /\ UNCHANGED <<regPc, regArg, regPre, issued, nOps, opCap>>
    /\ UNCHANGED agVars
    /\ UNCHANGED fsVars

\* create_life, lines 61-72: the number, the name, life_path.exists()
RegCreateCall(i) ==
    /\ regPc[i] = "idle"
    /\ nOps < opCap
    /\ regIndex[i].total_lives < MaxLives
    /\ \E given \in NameInputs \cup {NoName} :
        LET number == NextLifeNumber(regIndex[i])
            name == LifeNameFor(given, number)
        IN /\ regArg' = [regArg EXCEPT ![i] =
                           [op |-> "create", name |-> name, number |-> number,
                            confirm |-> FALSE]]
           /\ regPc' = [regPc EXCEPT ![i] = "c_exists"]
    /\ regPre' = [regPre EXCEPT ![i] = Snapshot(i)]
    /\ nOps' = nOps + 1
    /\ UNCHANGED <<regIndex, regRes, issued, nRestarts, opCap>>
    /\ UNCHANGED agVars
    /\ UNCHANGED fsVars

\* a create that goes on over an existing directory (mkdir has exist_ok)
RegCreateExists_Overwrite(i) ==
    /\ regPc[i] = "c_exists"
    /\ Goto(i, "c_mkdir")
    /\ UNCHANGED <<regIndex, regPre, issued, nOps, nRestarts, opCap>>
    /\ UNCHANGED agVars
    /\ UNCHANGED fsVars

\* line 71-72: if life_path.exists(): raise ValueError
RegCreateExists(i) ==
    /\ regPc[i] = "c_exists"
    /\ IF lifeDirs[regArg[i].name].exists
       THEN Finish(i, "AlreadyExists")
       ELSE Goto(i, "c_mkdir")
    /\ UNCHANGED <<regIndex, regPre, issued, nOps, nRestarts, opCap>>
    /\ UNCHANGED agVars
    /\ UNCHANGED fsVars

\* line 74: life_path.mkdir(exist_ok=True)
RegCreateMkdir(i) ==
    /\ regPc[i] = "c_mkdir"
    /\ lifeDirs' = [lifeDirs EXCEPT ![regArg[i].name] =
                      IF @.exists THEN @ ELSE EmptyDir]
    /\ Goto(i, "c_meta")
    /\ UNCHANGED <<regIndex, regPre, issued, nOps, nRestarts, opCap>>
    /\ UNCHANGED agVars
    /\ UNCHANGED <<link, legacyDir, backups, indexFile>>

\* lines 86-90: metadata.json
RegCreateMeta(i) ==
    /\ regPc[i] = "c_meta"
    /\ lifeDirs' = [lifeDirs EXCEPT ![regArg[i].name].meta = regArg[i].number]
    /\ Goto(i, "c_state")
    /\ UNCHANGED <<regIndex, regPre, issued, nOps, nRestarts, opCap>>
    /\ UNCHANGED agVars
    /\ UNCHANGED <<link, legacyDir, backups, indexFile>>

\* lines 93-104: state.json
RegCreateState(i) ==
    /\ regPc[i] = "c_state"
    /\ lifeDirs' = [lifeDirs EXCEPT ![regArg[i].name].state = ZeroState]
    /\ Goto(i, "c_diary")
    /\ UNCHANGED <<regIndex, regPre, issued, nOps, nRestarts, opCap>>
    /\ UNCHANGED agVars
    /\ UNCHANGED <<link, legacyDir, backups, indexFile>>

\* line 106: diary.jsonl written empty
RegCreateDiary(i) ==
    /\ regPc[i] = "c_diary"
    /\ lifeDirs' = [lifeDirs EXCEPT ![regArg[i].name].hasDiary = TRUE,
                                    ![regArg[i].name].diary = <<>>]
    /\ Goto(i, "c_index")
    /\ UNCHANGED <<regIndex, regPre, issued, nOps, nRestarts, opCap>>
    /\ UNCHANGED agVars
    /\ UNCHANGED <<link, legacyDir, backups, indexFile>>

\* the index entry recorded without counting the life
CreateIndex_NoCount(idx, name, number) ==
    [idx EXCEPT !.lives = WithLife(idx.lives, name, number),
                !.current_life = name]

\* lines 110-113: the index entry, total_lives, current_life, _save_index
CreateIndex(idx, name, number) ==
    [idx EXCEPT !.lives = WithLife(idx.lives, name, number),
                !.total_lives = number,
                !.current_life = name]

RegCreateIndex(i) ==
    /\ regPc[i] = "c_index"
    /\ regIndex' = [regIndex EXCEPT ![i] =
                      CreateIndex(@, regArg[i].name, regArg[i].number)]
    /\ indexFile' = TornIndexFile
    /\ issued' = Append(issued, [name |-> regArg[i].name,
                                 number |-> regArg[i].number])
    /\ Goto(i, "c_index_w")
    /\ UNCHANGED <<regPre, nOps, nRestarts, opCap>>
    /\ UNCHANGED agVars
    /\ UNCHANGED <<lifeDirs, link, legacyDir, backups>>

\* a switch that does not look the name up in the index
RegSwitchCall_NoLookup(i) ==
    /\ regPc[i] = "idle"
    /\ nOps < opCap
    /\ \E name \in NameInputs \cup {AutoName(1)} :
        /\ regArg' = [regArg EXCEPT ![i] =
                        [op |-> "switch", name |-> name, number |-> 0,
                         confirm |-> FALSE]]
        /\ regPc' = [regPc EXCEPT ![i] = "s_unlink"]
        /\ UNCHANGED regRes
    /\ regPre' = [regPre EXCEPT ![i] = Snapshot(i)]
    /\ nOps' = nOps + 1
    /\ UNCHANGED <<regIndex, issued, nRestarts, opCap>>
    /\ UNCHANGED agVars
    /\ UNCHANGED fsVars

\* switch_to_life, lines 297-300
RegSwitchCall(i) ==
    /\ regPc[i] = "idle"
    /\ nOps < opCap
    /\ \E name \in NameInputs \cup {AutoName(1)} :
        /\ regArg' = [regArg EXCEPT ![i] =
                        [op |-> "switch", name |-> name, number |-> 0,
                         confirm |-> FALSE]]
        /\ IF name \in DOMAIN regIndex[i].lives
           THEN /\ regPc' = [regPc EXCEPT ![i] = "s_unlink"]
                /\ UNCHANGED regRes
           ELSE /\ regPc' = [regPc EXCEPT ![i] = "idle"]
                /\ regRes' = [regRes EXCEPT ![i] =
                                [NoRes EXCEPT !.op = "switch", !.name = name,
                                              !.outcome = "NotFound"]]
    /\ regPre' = [regPre EXCEPT ![i] = Snapshot(i)]
    /\ nOps' = nOps + 1
    /\ UNCHANGED <<regIndex, issued, nRestarts, opCap>>
    /\ UNCHANGED agVars
    /\ UNCHANGED fsVars

\* a plain directory at my_space removed instead of renamed
RegSetUnlink_Rmtree(i) ==
    /\ regPc[i] = "s_unlink"
    /\ IF LinkExists
       THEN /\ link' = NoLink
            /\ legacyDir' = NoDir
       ELSE UNCHANGED <<link, legacyDir>>
    /\ UNCHANGED backups
    /\ Goto(i, "s_symlink")
    /\ UNCHANGED <<regIndex, regPre, issued, nOps, nRestarts, opCap>>
    /\ UNCHANGED agVars
    /\ UNCHANGED <<lifeDirs, indexFile>>

\* _set_current_life, lines 125-131: the old link is removed, a plain
\* directory is renamed aside
RegSetUnlink(i) ==
    /\ regPc[i] = "s_unlink"
    /\ IF LinkExists /\ link.kind = "symlink"
       THEN /\ link' = NoLink
            /\ UNCHANGED <<legacyDir, backups>>
       ELSE IF LinkExists /\ link.kind = "dir"
       THEN /\ link' = NoLink
            /\ backups' = Append(backups, legacyDir)
            /\ legacyDir' = NoDir
       ELSE UNCHANGED <<link, legacyDir, backups>>
    /\ Goto(i, "s_symlink")
    /\ UNCHANGED <<regIndex, regPre, issued, nOps, nRestarts, opCap>>
    /\ UNCHANGED agVars
    /\ UNCHANGED <<lifeDirs, indexFile>>

\* line 134: symlink_to raises FileExistsError when my_space is still there
RegSetSymlink(i) ==
    /\ regPc[i] = "s_symlink"
    /\ IF link.kind = "absent"
       THEN /\ link' = [kind |-> "symlink", target |-> regArg[i].name]
            /\ Goto(i, "s_index")
       ELSE /\ UNCHANGED link
            /\ Finish(i, "FileExists")
    /\ UNCHANGED <<regIndex, regPre, issued, nOps, nRestarts, opCap>>
    /\ UNCHANGED agVars
    /\ UNCHANGED <<lifeDirs, legacyDir, backups, indexFile>>

\* lines 136-137
RegSetIndex(i) ==
    /\ regPc[i] = "s_index"
    /\ regIndex' = [regIndex EXCEPT ![i].current_life = regArg[i].name]
    /\ indexFile' = TornIndexFile
    /\ Goto(i, "s_index_w")
    /\ UNCHANGED <<regPre, issued, nOps, nRestarts, opCap>>
    /\ UNCHANGED agVars
    /\ UNCHANGED <<lifeDirs, link, legacyDir, backups>>

\* the checks without the protection of the current life
DeleteCheck_NoProtect(idx, name, confirm) ==
    IF ~confirm THEN "ConfirmationRequired"
    ELSE IF name \notin DOMAIN idx.lives THEN "NotFound"
    ELSE "ok"

\* the checks with the lookup made before the confirmation
DeleteCheck_LookupFirst(idx, name, confirm) ==
    IF name \notin DOMAIN idx.lives THEN "NotFound"
    ELSE IF ~confirm THEN "ConfirmationRequired"
    ELSE IF name = idx.current_life THEN "CurrentLifeProtected"
    ELSE "ok"

\* delete_life, lines 304-312: the checks, in the order the code makes them
DeleteCheck(idx, name, confirm) ==
    IF ~confirm THEN "ConfirmationRequired"
    ELSE IF name \notin DOMAIN idx.lives THEN "NotFound"
    ELSE IF name = idx.current_life THEN "CurrentLifeProtected"
    ELSE "ok"

RegDeleteCall(i) ==
    /\ regPc[i] = "idle"
    /\ nOps < opCap
    /\ \E name \in NameInputs \cup {AutoName(1)}, confirm \in BOOLEAN :
        LET check == DeleteCheck(regIndex[i], name, confirm)
        IN /\ regArg' = [regArg EXCEPT ![i] =
                           IF check = "ok"
                           THEN [op |-> "delete", name |-> name, number |-> 0,
                                 confirm |-> confirm]
                           ELSE NoArg]
           /\ IF check = "ok"
              THEN /\ regPc' = [regPc EXCEPT ![i] = "d_rmtree"]
                   /\ UNCHANGED regRes
              ELSE /\ regPc' = [regPc EXCEPT ![i] = "idle"]
                   /\ regRes' = [regRes EXCEPT ![i] =
                                   [NoRes EXCEPT !.op = "delete", !.name = name,
                                                 !.confirm = confirm,
                                                 !.outcome = check]]
    /\ regPre' = [regPre EXCEPT ![i] = Snapshot(i)]
    /\ nOps' = nOps + 1
    /\ UNCHANGED <<regIndex, issued, nRestarts, opCap>>
    /\ UNCHANGED agVars
    /\ UNCHANGED fsVars

\* a delete that removes every life directory but the current one
RegDeleteRmtree_Lives(i) ==
    /\ regPc[i] = "d_rmtree"
    /\ lifeDirs' = [n \in AllNames |->
                      IF n = regIndex[i].current_life THEN lifeDirs[n] ELSE NoDir]
    /\ Goto(i, "d_index")
    /\ UNCHANGED <<regIndex, regPre, issued, nOps, nRestarts, opCap>>
    /\ UNCHANGED agVars
    /\ UNCHANGED <<link, legacyDir, backups, indexFile>>

\* lines 314-318: shutil.rmtree(life_path)
RegDeleteRmtree(i) ==
    /\ regPc[i] = "d_rmtree"
    /\ IF lifeDirs[regArg[i].name].exists
       THEN /\ lifeDirs' = [lifeDirs EXCEPT ![regArg[i].name] = NoDir]
            /\ Goto(i, "d_index")
       ELSE /\ UNCHANGED lifeDirs
            /\ Finish(i, "FileNotFound")
    /\ UNCHANGED <<regIndex, regPre, issued, nOps, nRestarts, opCap>>
    /\ UNCHANGED agVars
    /\ UNCHANGED <<link, legacyDir, backups, indexFile>>

\* a delete that leaves the entry of the life in the index
RegDeleteIndex_KeepsEntry(i) ==
    /\ regPc[i] = "d_index"
    /\ indexFile' = TornIndexFile
    /\ Goto(i, "d_index_w")
    /\ UNCHANGED <<regIndex, regPre, issued, nOps, nRestarts, opCap>>
    /\ UNCHANGED agVars
    /\ UNCHANGED <<lifeDirs, link, legacyDir, backups>>

\* lines 321-322
RegDeleteIndex(i) ==
    /\ regPc[i] = "d_index"
    /\ regIndex' = [regIndex EXCEPT ![i].lives = WithoutLife(@, regArg[i].name)]
    /\ indexFile' = TornIndexFile
    /\ Goto(i, "d_index_w")
    /\ UNCHANGED <<regPre, issued, nOps, nRestarts, opCap>>
    /\ UNCHANGED agVars
    /\ UNCHANGED <<lifeDirs, link, legacyDir, backups>>

\* _save_index, lines 50-55: write_text has opened index.json, which
\* emptied it, and now writes self.index; create_life goes on to
\* _set_current_life, switch_to_life and delete_life return
RegSaveIndex(i) ==
    /\ regPc[i] \in {"c_index_w", "s_index_w", "d_index_w"}
    /\ indexFile' = regIndex[i]
    /\ IF regPc[i] = "c_index_w" THEN Goto(i, "s_unlink") ELSE Finish(i, "ok")
    /\ UNCHANGED <<regIndex, regPre, issued, nOps, nRestarts, opCap>>
    /\ UNCHANGED agVars
    /\ UNCHANGED <<lifeDirs, link, legacyDir, backups>>

\* life_path.exists() for lives/<name>: a life directory, or index.json
PathExists(name) ==
    IF name = IndexName THEN indexFile.kind # "none" ELSE lifeDirs[name].exists

\* get_life_stats, lines 180-184, as far as compare_lives uses it: None
\* when lives/<name> does not exist, a dict otherwise
get_life_stats(name) == [found |-> PathExists(name)]

\* compare_lives, lines 248-264: the keys of the comparison
compare_lives(life_names) ==
    {name \in life_names : get_life_stats(name).found}

\* the lists of names given to compare_lives
CompareInputs ==
    {{"alpha", AutoName(1)}, {"alpha", "life_002", IndexName}}

\* compare_lives called: it reads, and changes nothing
RegCompare(i) ==
    /\ regPc[i] = "idle"
    /\ \E life_names \in CompareInputs :
          regRes' = [regRes EXCEPT ![i] =
                       [NoRes EXCEPT !.op = "compare", !.outcome = "ok",
                                     !.asked = life_names,
                                     !.keys = compare_lives(life_names)]]
    /\ regPre' = [regPre EXCEPT ![i] = Snapshot(i)]
    /\ UNCHANGED <<regIndex, regPc, regArg, issued, nOps, nRestarts, opCap>>
    /\ UNCHANGED agVars
    /\ UNCHANGED fsVars

\* read_life_diary, lines 224-246: the lines that parse, then the last
\* limit of them
read_life_diary(d, limit) ==
    IF ~d.exists \/ ~d.hasDiary THEN <<>>
    ELSE LastN(SelectSeq(d.diary, ValidLine), limit)

\* the values of --limit explored
DiaryLimits == {1, 2, 10}

\* read_life_diary called: it reads, and changes nothing
RegReadDiary(i) ==
    /\ regPc[i] = "idle"
    /\ \E life_name \in {"alpha"}, limit \in DiaryLimits :
          regRes' = [regRes EXCEPT ![i] =
                       [NoRes EXCEPT !.op = "diary", !.outcome = "ok",
                                     !.name = life_name, !.limit = limit,
                                     !.entries = read_life_diary(lifeDirs[life_name],
                                                                 limit)]]
    /\ regPre' = [regPre EXCEPT ![i] = Snapshot(i)]
    /\ UNCHANGED <<regIndex, regPc, regArg, issued, nOps, nRestarts, opCap>>
    /\ UNCHANGED agVars
    /\ UNCHANGED fsVars

RegStep(i) ==
    \/ RegRestart(i)
    \/ RegCreateCall(i)
    \/ RegCreateExists(i)
    \/ RegCreateMkdir(i)
    \/ RegCreateMeta(i)
    \/ RegCreateState(i)
    \/ RegCreateDiary(i)
    \/ RegCreateIndex(i)
    \/ RegSwitchCall(i)
    \/ RegSetUnlink(i)
    \/ RegSetSymlink(i)
    \/ RegSetIndex(i)
    \/ RegDeleteCall(i)
    \/ RegDeleteRmtree(i)
    \/ RegDeleteIndex(i)
    \/ RegSaveIndex(i)
    \/ RegCompare(i)

\* ------------------------------------------------------------------- agent
\* max_iterations=None of run
NoMax == -1

\* the values of --max-iterations explored
MaxIterInputs == {NoMax, 0, 1, 2}

\* `if max_iterations and ...`: None and 0 are both false
MaxGiven(m) == m # NoMax /\ m # 0

\* What extract_json_from_response returns for the responses explored:
\* isDict is false for valid JSON that is no object; action, next_goal and
\* reflection are 0 when empty or missing; cont is the "continue" member.
GoOn ==
    [isDict |-> TRUE, action |-> 1, next_goal |-> 1, reflection |-> 1, cont |-> "true"]

Empty ==
    [isDict |-> TRUE, action |-> 0, next_goal |-> 0, reflection |-> 0, cont |-> "absent"]

Stop ==
    [isDict |-> TRUE, action |-> 1, next_goal |-> 0, reflection |-> 1, cont |-> "false"]

NotObject ==
    [isDict |-> FALSE, action |-> 0, next_goal |-> 0, reflection |-> 0, cont |-> "absent"]

Responses == {GoOn, Empty, Stop, NotObject}

NoResponse ==
    [isDict |-> FALSE, action |-> 0, next_goal |-> 0, reflection |-> 0, cont |-> "none"]

\* ---- the response text and extract_json_from_response (lines 176-215)
\* A response is a sequence of tokens: "tag" is ```json, "fence" is ```,
\* "nl" a newline, "prose" text that is no JSON and holds no backtick, and
\* "json" the text of the JSON value v.  tick says that the token's text
\* contains ```: the two fences, and a JSON object one of whose strings
\* does.
Tok(k) == [k |-> k, v |-> NoResponse, tick |-> k \in {"tag", "fence"}]

JsonTok(v, tick) == [k |-> "json", v |-> v, tick |-> tick]

\* the largest i with P(text[i]), 0 when there is none: str.rfind
RFindTag(text) ==
    LET S == {i \in 1..Len(text) : text[i].k = "tag"}
    IN IF S = {} THEN 0 ELSE CHOOSE i \in S : \A j \in S : j <= i

RFindTicks(text) ==
    LET S == {i \in 1..Len(text) : text[i].tick}
    IN IF S = {} THEN 0 ELSE CHOOSE i \in S : \A j \in S : j <= i

\* the first token at or after position from whose text contains ```
\* (response.find("```", start)), 0 when there is none
FindTicks(text, from) ==
    LET S == {i \in from..Len(text) : text[i].tick}
    IN IF S = {} THEN 0 ELSE CHOOSE i \in S : \A j \in S : i <= j

\* response.find("\n", start)
FindNewline(text, from) ==
    LET S == {i \in from..Len(text) : text[i].k = "nl"}
    IN IF S = {} THEN 0 ELSE CHOOSE i \in S : \A j \in S : i <= j

\* str.strip: leading and trailing whitespace goes
RECURSIVE Strip(_)
Strip(text) ==
    IF text = <<>> THEN text
    ELSE IF Head(text).k = "nl" THEN Strip(Tail(text))
    ELSE IF text[Len(text)].k = "nl" THEN Strip(SubSeq(text, 1, Len(text) - 1))
    ELSE text

\* response[a:b] where the match that gave b starts at token b: everything
\* from token a up to the backticks.  When token b is a JSON text the slice
\* ends inside it, with the part of that text before its backticks.
Slice(text, a, b) ==
    [toks |-> SubSeq(text, a, b - 1), cut |-> text[b].k = "json"]

\* json.loads(json_str): a value when the stripped string is the text of
\* exactly one JSON value, an exception otherwise
Loads(sl) ==
    LET t == Strip(sl.toks)
    IN IF ~sl.cut /\ Len(t) = 1 /\ t[1].k = "json"
       THEN [ok |-> TRUE, v |-> t[1].v]
       ELSE [ok |-> FALSE, v |-> NoResponse]

\* lines 209-215: the default record
DefaultResponse ==
    [isDict |-> TRUE, action |-> 0, next_goal |-> 1, reflection |-> 1,
     cont |-> "false"]

\* lines 179-187: the block opened by the last ```json
TaggedBlock(text) ==
    LET start == RFindTag(text) + 1
        end   == FindTicks(text, start)
    IN IF RFindTag(text) # 0 /\ end # 0
       THEN Loads(Slice(text, start, end))
       ELSE [ok |-> FALSE, v |-> NoResponse]

\* lines 188-200: after the last ```, up to the next ```, less the first line
GenericBlock(text) ==
    LET start == RFindTicks(text) + 1
        end   == FindTicks(text, start)
        first_newline == FindNewline(text, start)
    IN IF RFindTag(text) = 0 /\ RFindTicks(text) # 0 /\ end # 0
          /\ first_newline # 0 /\ first_newline < end
       THEN Loads(Slice(text, first_newline + 1, end))
       ELSE [ok |-> FALSE, v |-> NoResponse]

\* lines 202-206: the whole response
WholeResponse(text) == Loads([toks |-> text, cut |-> FALSE])

\* a parser that gives None when nothing can be parsed
extract_json_from_response_None(text) ==
    IF TaggedBlock(text).ok THEN TaggedBlock(text).v
    ELSE IF GenericBlock(text).ok THEN GenericBlock(text).v
    ELSE IF WholeResponse(text).ok THEN WholeResponse(text).v
    ELSE NotObject

extract_json_from_response(text) ==
    IF TaggedBlock(text).ok THEN TaggedBlock(text).v
    ELSE IF GenericBlock(text).ok THEN GenericBlock(text).v
    ELSE IF WholeResponse(text).ok THEN WholeResponse(text).v
    ELSE DefaultResponse

\* ---- the responses explored
\* A response is put together from segments: free prose, a bare JSON text,
\* a block fenced by ```json, a block fenced by ```, and a block fenced by
\* ``` and a language name.  The content c of a segment is one token.
Contents ==
    {JsonTok(GoOn, FALSE), JsonTok(Stop, FALSE), JsonTok(NotObject, FALSE),
     JsonTok(Stop, TRUE), Tok("prose")}

Segments ==
    {[kind |-> "prose", c |-> Tok("prose")]}
    \cup {[kind |-> "bare", c |-> c] : c \in Contents \ {Tok("prose")}}
    \cup {[kind |-> k, c |-> c] : k \in {"tagged", "generic", "generic_lang"},
                                 c \in Contents}

RenderSegment(seg) ==
    CASE seg.kind = "tagged" ->
            <<Tok("tag"), Tok("nl"), seg.c, Tok("nl"), Tok("fence")>>
      [] seg.kind = "generic" ->
            <<Tok("fence"), Tok("nl"), seg.c, Tok("nl"), Tok("fence")>>
      [] seg.kind = "generic_lang" ->
            <<Tok("fence"), Tok("prose"), Tok("nl"), seg.c, Tok("nl"), Tok("fence")>>
      [] OTHER -> <<seg.c>>

RECURSIVE Render(_)
Render(segs) ==
    IF segs = <<>> THEN <<>>
    ELSE RenderSegment(Head(segs)) \o <<Tok("nl")>> \o Render(Tail(segs))

\* the responses of up to MaxSegments segments
SegmentInputs ==
    UNION {[1..n -> Segments] : n \in 1..MaxSegments}

\* a response that is the text of one JSON value
Plain(v) == <<[kind |-> "bare", c |-> JsonTok(v, FALSE)]>>

\* the responses the backend gives, by the name the run is set up with
ResponseInputs(name) ==
    CASE name = "values" -> {Plain(v) : v \in Responses}
      [] name = "acting" -> {Plain(v) : v \in {r \in Responses : r.isDict /\ r.action # 0}}
      [] name = "texts"  -> SegmentInputs
      [] OTHER -> {}

\* no agent process
AgOff ==
    [pc |-> "off", state |-> ZeroState, reinc |-> FALSE, life |-> NoName,
     count |-> 0, max |-> NoMax, response |-> <<>>, resp |-> NoResponse,
     ret |-> FALSE, cancelled |-> FALSE]

NoTurn ==
    [active |-> FALSE, iter |-> 0, preState |-> ZeroState, preSnap |-> NoState,
     preDiary |-> <<>>, fail |-> "none", errs |-> 0, recent |-> <<>>]

\* my_space/<file> resolves: my_space is a directory or a link to one
Resolves == LinkDir.exists

\* the name of the directory a write under my_space lands in
Dest == IF link.kind = "symlink" THEN link.target ELSE "my_space"

\* the directory my_space resolves to becomes d
PutDir(d) ==
    IF link.kind = "symlink"
    THEN /\ lifeDirs' = [lifeDirs EXCEPT ![link.target] = d]
         /\ UNCHANGED legacyDir
    ELSE /\ legacyDir' = d
         /\ UNCHANGED lifeDirs

\* write_diary, lines 102-109: the entry takes self.state["iteration"] and
\* is appended to my_space/diary.jsonl
Entry(phase) == [phase |-> phase, iteration |-> ag.state.iteration]

WriteEntry(entry) ==
    /\ PutDir([LinkDir EXCEPT !.hasDiary = TRUE,
                              !.diary = Append(@, entry)])
    /\ agWrote' = agWrote \cup {Dest}

WriteDiary(phase) == WriteEntry(Entry(phase))

AgGoto(pc) == ag' = [ag EXCEPT !.pc = pc]

\* The positions of run_iteration inside its try block (lines 241-328),
\* those before it (lines 219-237), and those where the turn has written
\* ITERATION_START and has not yet returned.
TryPcs == {"call", "resp", "think", "action", "reflect", "goal", "update",
           "save", "save_w", "end"}
PreTryPcs == {"it_start", "prompt"}
InTurnPcs == {"prompt"} \cup TryPcs \cup {"err_in"}

\* The statements that write a file and can raise OSError.
IoPcs == {"it_start", "prompt", "resp", "think", "action", "reflect", "goal",
          "save", "save_w", "end"}

\* where an exception raised at pc is caught: run_iteration's handler
\* (lines 330-343) or run's (lines 384-390)
Handler(pc) == IF pc \in TryPcs THEN "err_in" ELSE "err_out"

Raise(kind) ==
    /\ ag' = [ag EXCEPT !.pc = Handler(ag.pc)]
    /\ turn' = [turn EXCEPT !.fail = kind]

\* One diary write of a turn: the entry is appended and the turn goes on,
\* or my_space does not resolve and open() raises.
TurnWrite(phase, next) ==
    IF Resolves
    THEN /\ WriteDiary(phase)
         /\ AgGoto(next)
         /\ UNCHANGED <<turn, hist>>
    ELSE /\ Raise("io")
         /\ UNCHANGED <<lifeDirs, legacyDir, hist, agWrote>>

\* A process is started: main, lines 395-406.
AgStart ==
    /\ ag.pc = "off"
    /\ hist.nRuns < hist.runCap
    /\ \E m \in hist.maxIn : ag' = [AgOff EXCEPT !.pc = "i_link", !.max = m]
    /\ hist' = [hist EXCEPT !.nRuns = @ + 1]
    /\ agWrote' = {}
    /\ turn' = NoTurn
    /\ UNCHANGED fsVars
    /\ UNCHANGED regVars

\* __init__, lines 33-36: is_symlink, realpath
AgInitLink ==
    /\ ag.pc = "i_link"
    /\ ag' = [ag EXCEPT !.pc = "i_mkdir",
                        !.reinc = (link.kind = "symlink"),
                        !.life = IF link.kind = "symlink" THEN link.target
                                 ELSE NoName]
    /\ UNCHANGED <<turn, hist, agWrote>>
    /\ UNCHANGED fsVars
    /\ UNCHANGED regVars

\* lines 39-40: mkdir when my_space does not exist; on a dangling link
\* mkdir raises FileExistsError and the process ends
AgInitMkdir ==
    /\ ag.pc = "i_mkdir"
    /\ IF LinkExists
       THEN /\ AgGoto("i_diary")
            /\ UNCHANGED <<link, legacyDir>>
       ELSE IF link.kind = "absent"
       THEN /\ link' = [kind |-> "dir", target |-> NoName]
            /\ legacyDir' = EmptyDir
            /\ AgGoto("i_diary")
       ELSE /\ ag' = AgOff
            /\ UNCHANGED <<link, legacyDir>>
    /\ UNCHANGED <<turn, hist, agWrote>>
    /\ UNCHANGED <<lifeDirs, backups, indexFile>>
    /\ UNCHANGED regVars

\* line 50: if not self.diary_file.exists()
AgInitDiaryCheck ==
    /\ ag.pc = "i_diary"
    /\ AgGoto(IF Resolves /\ LinkDir.hasDiary THEN "i_load" ELSE "i_diary_w")
    /\ UNCHANGED <<turn, hist, agWrote>>
    /\ UNCHANGED fsVars
    /\ UNCHANGED regVars

\* line 51: self.diary_file.write_text(""): the file is created or truncated
AgInitDiaryWrite ==
    /\ ag.pc = "i_diary_w"
    /\ IF Resolves
       THEN /\ PutDir([LinkDir EXCEPT !.hasDiary = TRUE, !.diary = <<>>])
            /\ agWrote' = agWrote \cup {Dest}
            /\ AgGoto("i_load")
       ELSE /\ ag' = AgOff
            /\ UNCHANGED <<lifeDirs, legacyDir, agWrote>>
    /\ UNCHANGED <<turn, hist>>
    /\ UNCHANGED <<link, backups, indexFile>>
    /\ UNCHANGED regVars

\* _load_state, lines 72-86
LoadState ==
    IF Resolves /\ LinkDir.state.kind # "none" THEN LinkDir.state ELSE ZeroState

\* line 54; json.loads of an unreadable snapshot raises and the process ends
AgInitLoad ==
    /\ ag.pc = "i_load"
    /\ IF LoadState.kind = "ok"
       THEN ag' = [ag EXCEPT !.pc = "ready", !.state = LoadState]
       ELSE ag' = AgOff
    /\ UNCHANGED <<turn, hist, agWrote>>
    /\ UNCHANGED fsVars
    /\ UNCHANGED regVars

\* run, lines 345-360: SYSTEM_START; an exception here is not caught
AgRunStart ==
    /\ ag.pc = "ready"
    /\ IF Resolves
       THEN /\ WriteDiary("SYSTEM_START")
            /\ ag' = [ag EXCEPT !.pc = "it_start", !.count = 0]
       ELSE /\ ag' = AgOff
            /\ UNCHANGED <<lifeDirs, legacyDir, agWrote>>
    /\ UNCHANGED <<turn, hist>>
    /\ UNCHANGED <<link, backups, indexFile>>
    /\ UNCHANGED regVars

\* run_iteration, lines 219-227: ITERATION_START
AgIterStart ==
    /\ ag.pc = "it_start"
    /\ hist.nTurns < hist.turnCap
    /\ IF Resolves
       THEN /\ WriteDiary("ITERATION_START")
            /\ AgGoto("prompt")
            /\ turn' = [active |-> TRUE, iter |-> ag.state.iteration,
                        preState |-> ag.state, preSnap |-> LinkDir.state,
                        preDiary |-> LinkDir.diary, fail |-> "none",
                        errs |-> 0, recent |-> <<>>]
       ELSE /\ ag' = [ag EXCEPT !.pc = "err_out"]
            /\ turn' = [active |-> TRUE, iter |-> ag.state.iteration,
                        preState |-> ag.state, preSnap |-> LinkDir.state,
                        preDiary |-> LinkDir.diary, fail |-> "io",
                        errs |-> 0, recent |-> <<>>]
            /\ UNCHANGED <<lifeDirs, legacyDir, agWrote>>
    /\ hist' = [hist EXCEPT !.nTurns = @ + 1]
    /\ UNCHANGED <<link, backups, indexFile>>
    /\ UNCHANGED regVars

\* generate_prompt, lines 165-172: the values str.format is given
PromptFields ==
    {"iteration", "timestamp", "state", "life_name", "my_space", "recent_diary"}

\* A template is the set of its placeholders: the built-in one
\* (ai_providers.py lines 442-512), and a configured one with a placeholder
\* generate_prompt has no value for.
DefaultTemplate == PromptFields

CustomTemplate == {"iteration", "mood"}

\* prompt_template.format(...) returns; otherwise it raises KeyError
FormatOk(template) == template \subseteq PromptFields

\* read_recent_diary, lines 113-128: the last limit lines of the file,
\* and of these the ones that parse
read_recent_diary(d, limit) ==
    IF ~d.exists \/ ~d.hasDiary THEN <<>>
    ELSE SelectSeq(LastN(d.diary, limit), ValidLine)

\* lines 229-237: generate_prompt reads the recent diary (line 133,
\* limit=10; turn.recent keeps what it got), the configured template is read
\* and rendered (lines 136-137, 165), the prompt written, PROMPT_GENERATED;
\* an exception of generate_prompt is outside run_iteration's try block
AgPrompt ==
    /\ ag.pc = "prompt"
    /\ LET recent_diary == read_recent_diary(LinkDir, 10)
       IN \E template \in hist.tmplIn :
          IF FormatOk(template) /\ Resolves
          THEN /\ WriteDiary("PROMPT_GENERATED")
               /\ AgGoto("call")
               /\ turn' = [turn EXCEPT !.recent = recent_diary]
               /\ UNCHANGED hist
          ELSE /\ ag' = [ag EXCEPT !.pc = Handler(ag.pc)]
               /\ turn' = [turn EXCEPT !.recent = recent_diary,
                                       !.fail = IF FormatOk(template) THEN "io"
                                                ELSE "template"]
               /\ UNCHANGED <<lifeDirs, legacyDir, hist, agWrote>>
    /\ UNCHANGED <<link, backups, indexFile>>
    /\ UNCHANGED regVars

\* lines 243-246: the provider returns a response
AgBackendOk ==
    /\ ag.pc = "call"
    /\ \E r \in ResponseInputs(hist.respIn) :
          ag' = [ag EXCEPT !.pc = "resp", !.response = r, !.resp = NoResponse]
    /\ UNCHANGED <<turn, hist, agWrote>>
    /\ UNCHANGED fsVars
    /\ UNCHANGED regVars

\* ai_providers.py lines 63-66: a timeout or any other failure of the call
\* is raised as Exception
AgBackendFail ==
    /\ ag.pc = "call"
    /\ Raise("backend")
    /\ UNCHANGED <<hist, agWrote>>
    /\ UNCHANGED fsVars
    /\ UNCHANGED regVars

\* lines 248-256: response.txt, RESPONSE_RECEIVED
AgResponse ==
    /\ ag.pc = "resp"
    /\ TurnWrite("RESPONSE_RECEIVED", "think")
    /\ UNCHANGED <<link, backups, indexFile>>
    /\ UNCHANGED regVars

\* lines 258-267: THINKING; response_data.get raises AttributeError when the
\* parsed JSON is no object
AgThinking ==
    /\ ag.pc = "think"
    /\ LET response_data == extract_json_from_response(Render(ag.response))
           failed == ~response_data.isDict \/ ~Resolves
       IN /\ ag' = [ag EXCEPT !.pc = IF failed THEN Handler(ag.pc) ELSE "action",
                              !.response = <<>>,
                              !.resp = response_data]
          /\ IF failed
             THEN /\ turn' = [turn EXCEPT
                                !.fail = IF response_data.isDict THEN "io"
                                         ELSE "nondict"]
                  /\ UNCHANGED <<lifeDirs, legacyDir, agWrote>>
             ELSE /\ WriteDiary("THINKING")
                  /\ UNCHANGED turn
    /\ UNCHANGED hist
    /\ UNCHANGED <<link, backups, indexFile>>
    /\ UNCHANGED regVars

\* ACTION written only when the response has an action
AgAction_SkipEmpty ==
    /\ ag.pc = "action"
    /\ IF ag.resp.action # 0
       THEN TurnWrite("ACTION", "reflect")
       ELSE /\ AgGoto("reflect")
            /\ UNCHANGED <<lifeDirs, legacyDir, turn, hist, agWrote>>
    /\ UNCHANGED <<link, backups, indexFile>>
    /\ UNCHANGED regVars

\* lines 269-274
AgAction ==
    /\ ag.pc = "action"
    /\ TurnWrite("ACTION", "reflect")
    /\ UNCHANGED <<link, backups, indexFile>>
    /\ UNCHANGED regVars

\* lines 276-281
AgReflection ==
    /\ ag.pc = "reflect"
    /\ TurnWrite("REFLECTION", "goal")
    /\ UNCHANGED <<link, backups, indexFile>>
    /\ UNCHANGED regVars

\* lines 283-287
AgNextGoal ==
    /\ ag.pc = "goal"
    /\ TurnWrite("NEXT_GOAL", "update")
    /\ UNCHANGED <<link, backups, indexFile>>
    /\ UNCHANGED regVars

\* lines 306-307, 313-314: only the last 10 are kept
Last10(s) == IF Len(s) > 10 THEN SubSeq(s, Len(s) - 9, Len(s)) ELSE s

\* an update that counts an action in every turn
UpdateState_AlwaysActs(st, r) ==
    [st EXCEPT
        !.iteration = @ + 1,
        !.total_thoughts = @ + 1,
        !.total_actions = @ + 1,
        !.last_action = r.action,
        !.goals = IF r.next_goal # 0 THEN Last10(Append(@, r.next_goal)) ELSE @,
        !.achievements = IF r.reflection # 0 THEN Last10(Append(@, r.reflection))
                         ELSE @]

\* lines 289-314: self.state after the turn
UpdateState(st, r) ==
    [st EXCEPT
        !.iteration = @ + 1,
        !.total_thoughts = @ + 1,
        !.total_actions = IF r.action # 0 THEN @ + 1 ELSE @,
        !.last_action = IF r.action # 0 THEN r.action ELSE @,
        !.goals = IF r.next_goal # 0 THEN Last10(Append(@, r.next_goal)) ELSE @,
        !.achievements = IF r.reflection # 0 THEN Last10(Append(@, r.reflection))
                         ELSE @]

AgUpdate ==
    /\ ag.pc = "update"
    /\ ag' = [ag EXCEPT !.pc = "save", !.state = UpdateState(ag.state, ag.resp)]
    /\ UNCHANGED <<turn, hist, agWrote>>
    /\ UNCHANGED fsVars
    /\ UNCHANGED regVars

\* _save_state, lines 88-93, called at line 317: write_text opens
\* state.json for writing, which empties it ...
AgSaveOpen ==
    /\ ag.pc = "save"
    /\ IF Resolves
       THEN /\ PutDir([LinkDir EXCEPT !.state.kind = "torn"])
            /\ agWrote' = agWrote \cup {Dest}
            /\ AgGoto("save_w")
            /\ UNCHANGED turn
       ELSE /\ Raise("io")
            /\ UNCHANGED <<lifeDirs, legacyDir, agWrote>>
    /\ UNCHANGED hist
    /\ UNCHANGED <<link, backups, indexFile>>
    /\ UNCHANGED regVars

\* ... and then writes the JSON text of self.state to the open file
AgSave ==
    /\ ag.pc = "save_w"
    /\ IF Resolves
       THEN /\ PutDir([LinkDir EXCEPT !.state = ag.state])
            /\ agWrote' = agWrote \cup {Dest}
            /\ AgGoto("end")
            /\ UNCHANGED turn
       ELSE /\ Raise("io")
            /\ UNCHANGED <<lifeDirs, legacyDir, agWrote>>
    /\ UNCHANGED hist
    /\ UNCHANGED <<link, backups, indexFile>>
    /\ UNCHANGED regVars

\* line 319: response_data.get("continue", True)
ShouldContinue(r) == r.cont # "false"

\* lines 319-328: the log line, ITERATION_END, return should_continue
AgIterEnd ==
    /\ ag.pc = "end"
    /\ IF Resolves
       THEN /\ WriteEntry([phase |-> "ITERATION_END",
                            iteration |-> ag.state.iteration,
                            will_continue |-> ShouldContinue(ag.resp)])
            /\ ag' = [ag EXCEPT !.pc = "ret", !.ret = ShouldContinue(ag.resp)]
            /\ hist' = [hist EXCEPT
                          !.nOk = @ + 1,
                          !.okGoals = IF ag.resp.next_goal # 0
                                      THEN Append(@, ag.resp.next_goal) ELSE @,
                          !.okAchievements = IF ag.resp.reflection # 0
                                             THEN Append(@, ag.resp.reflection)
                                             ELSE @]
            /\ UNCHANGED turn
       ELSE /\ Raise("io")
            /\ UNCHANGED <<lifeDirs, legacyDir, hist, agWrote>>
    /\ UNCHANGED <<link, backups, indexFile>>
    /\ UNCHANGED regVars

\* A statement of the turn that writes a file raises OSError (the log, the
\* prompt, the response, the diary or the snapshot cannot be written).  When
\* it is the write of _save_state, state.json stays as the open left it.
AgIoFault ==
    /\ ag.pc \in IoPcs
    /\ ag.pc = "it_start" => hist.nTurns < hist.turnCap
    /\ ag' = [ag EXCEPT !.pc = Handler(ag.pc)]
    /\ turn' = IF ag.pc = "it_start"
               THEN [active |-> TRUE, iter |-> ag.state.iteration,
                     preState |-> ag.state, preSnap |-> LinkDir.state,
                     preDiary |-> LinkDir.diary, fail |-> "io", errs |-> 0,
                     recent |-> <<>>]
               ELSE [turn EXCEPT !.fail = "io"]
    /\ hist' = [hist EXCEPT !.nTurns = IF ag.pc = "it_start" THEN @ + 1 ELSE @]
    /\ UNCHANGED <<lifeDirs, legacyDir, agWrote>>
    /\ UNCHANGED <<link, backups, indexFile>>
    /\ UNCHANGED regVars

\* a handler that swallows the exception: no ERROR entry, return False
AgErrorIn_Silent ==
    /\ ag.pc = "err_in"
    /\ ag' = [ag EXCEPT !.pc = "ret", !.ret = FALSE]
    /\ hist' = [hist EXCEPT !.nErr = @ + 1]
    /\ UNCHANGED <<turn, agWrote>>
    /\ UNCHANGED fsVars
    /\ UNCHANGED regVars

\* run_iteration's handlers, lines 330-343: ERROR, return False; when the
\* ERROR entry cannot be written the exception reaches run's handler
AgErrorIn ==
    /\ ag.pc = "err_in"
    /\ IF Resolves
       THEN /\ WriteDiary("ERROR")
            /\ ag' = [ag EXCEPT !.pc = "ret", !.ret = FALSE]
            /\ hist' = [hist EXCEPT !.nErr = @ + 1]
            /\ turn' = [turn EXCEPT !.errs = @ + 1]
       ELSE /\ AgGoto("err_out")
            /\ UNCHANGED <<lifeDirs, legacyDir, hist, agWrote, turn>>
    /\ UNCHANGED <<link, backups, indexFile>>
    /\ UNCHANGED regVars

\* a loop that goes on after a turn that returned False
AgLoop_IgnoresFailure ==
    /\ ag.pc = "ret"
    /\ LET n == ag.count + 1
       IN ag' = [ag EXCEPT
                   !.count = n,
                   !.pc = IF MaxGiven(ag.max) /\ n >= ag.max THEN "exit"
                          ELSE "sleep"]
    /\ turn' = [turn EXCEPT !.active = FALSE]
    /\ UNCHANGED <<hist, agWrote>>
    /\ UNCHANGED fsVars
    /\ UNCHANGED regVars

\* run, lines 363-375: the count, the two breaks, the pause
AgLoop ==
    /\ ag.pc = "ret"
    /\ LET n == ag.count + 1
       IN ag' = [ag EXCEPT
                   !.count = n,
                   !.pc = IF ~ag.ret THEN "exit"
                          ELSE IF MaxGiven(ag.max) /\ n >= ag.max THEN "exit"
                          ELSE "sleep"]
    /\ turn' = [turn EXCEPT !.active = FALSE]
    /\ UNCHANGED <<hist, agWrote>>
    /\ UNCHANGED fsVars
    /\ UNCHANGED regVars

\* line 375: time.sleep(2), then the next turn
AgSleep ==
    /\ ag.pc = "sleep"
    /\ AgGoto("it_start")
    /\ UNCHANGED <<turn, hist, agWrote>>
    /\ UNCHANGED fsVars
    /\ UNCHANGED regVars

\* run's handler for Exception, lines 384-390: ERROR, break; a second
\* failure here is not caught
AgErrorOut ==
    /\ ag.pc = "err_out"
    /\ IF Resolves
       THEN /\ WriteDiary("ERROR")
            /\ AgGoto("exit")
            /\ hist' = [hist EXCEPT !.nErr = @ + 1]
            /\ turn' = [turn EXCEPT !.active = FALSE, !.errs = @ + 1]
       ELSE /\ ag' = AgOff
            /\ turn' = [turn EXCEPT !.active = FALSE]
            /\ UNCHANGED <<lifeDirs, legacyDir, hist, agWrote>>
    /\ UNCHANGED <<link, backups, indexFile>>
    /\ UNCHANGED regVars

\* KeyboardInterrupt is raised in the main thread wherever it is inside the
\* loop's try; `except Exception` (line 337) does not catch it, run's
\* handler at line 377 does.
AgInterrupt ==
    /\ ag.pc \in PreTryPcs \cup TryPcs \cup {"err_in", "ret", "sleep"}
    /\ ag' = [ag EXCEPT !.pc = "intr", !.cancelled = TRUE]
    /\ hist' = [hist EXCEPT !.nCut = IF ag.pc \in InTurnPcs THEN @ + 1 ELSE @]
    /\ UNCHANGED <<turn, agWrote>>
    /\ UNCHANGED fsVars
    /\ UNCHANGED regVars

\* lines 377-383: SYSTEM_STOP, break
AgInterrupted ==
    /\ ag.pc = "intr"
    /\ IF Resolves
       THEN /\ WriteDiary("SYSTEM_STOP")
            /\ AgGoto("exit")
       ELSE /\ ag' = AgOff
            /\ UNCHANGED <<lifeDirs, legacyDir, agWrote>>
    /\ turn' = [turn EXCEPT !.active = FALSE]
    /\ UNCHANGED hist
    /\ UNCHANGED <<link, backups, indexFile>>
    /\ UNCHANGED regVars

\* KeyboardInterrupt raised inside json.loads of extract_json_from_response:
\* the bare `except:` around it (lines 186, 199, 205) takes it for a parse
\* failure, the default record is returned and the turn goes on.  (The
\* bare except of read_recent_diary, line 125, swallows it the same way.)
AgInterruptSwallowed ==
    /\ ag.pc = "think"
    /\ ~ag.cancelled
    /\ Resolves
    /\ ag' = [ag EXCEPT !.pc = "action", !.response = <<>>,
                        !.resp = DefaultResponse, !.cancelled = TRUE]
    /\ WriteDiary("THINKING")
    /\ UNCHANGED <<turn, hist>>
    /\ UNCHANGED <<link, backups, indexFile>>
    /\ UNCHANGED regVars

\* KeyboardInterrupt raised where no handler of run covers it: before the
\* loop's try (lines 347-360: the log lines and the SYSTEM_START entry) and
\* inside the `except Exception` clause (lines 384-390).  It leaves run.
AgInterruptUncaught ==
    /\ ag.pc \in {"ready", "err_out"}
    /\ ag' = [ag EXCEPT !.pc = "killed", !.cancelled = TRUE]
    /\ UNCHANGED <<turn, hist, agWrote>>
    /\ UNCHANGED fsVars
    /\ UNCHANGED regVars

\* main, line 406: the exception leaves main and the process ends
AgKilled ==
    /\ ag.pc = "killed"
    /\ ag' = AgOff
    /\ turn' = [turn EXCEPT !.active = FALSE]
    /\ UNCHANGED <<hist, agWrote>>
    /\ UNCHANGED fsVars
    /\ UNCHANGED regVars

\* line 392: run returns and the process ends
AgExit ==
    /\ ag.pc = "exit"
    /\ ag' = AgOff
    /\ UNCHANGED <<turn, hist, agWrote>>
    /\ UNCHANGED fsVars
    /\ UNCHANGED regVars

AgStep ==
    \/ AgStart
    \/ AgInitLink
    \/ AgInitMkdir
    \/ AgInitDiaryCheck
    \/ AgInitDiaryWrite
    \/ AgInitLoad
    \/ AgRunStart
    \/ AgIterStart
    \/ AgPrompt
    \/ AgBackendOk
    \/ AgBackendFail
    \/ AgResponse
    \/ AgThinking
    \/ AgAction
    \/ AgReflection
    \/ AgNextGoal
    \/ AgUpdate
    \/ AgSaveOpen
    \/ AgSave
    \/ AgIterEnd
    \/ AgIoFault
    \/ AgErrorIn
    \/ AgLoop
    \/ AgSleep
    \/ AgErrorOut
    \/ AgInterrupt
    \/ AgInterrupted
    \/ AgInterruptSwallowed
    \/ AgInterruptUncaught
    \/ AgKilled
    \/ AgExit

\* A work directory no registry has touched: my_space is absent, or is the
\* plain directory an agent run without lives left behind.
LegacyDirs ==
    {[exists |-> TRUE, meta |-> 0, state |-> s, hasDiary |-> TRUE, diary |-> <<>>] :
        s \in {NoState, [ZeroState EXCEPT !.iteration = 1, !.total_thoughts = 1]}}

RegInitVars ==
    /\ regIndex = [i \in Insts |-> LoadIndex]
    /\ regPc = [i \in Insts |-> "idle"]
    /\ regArg = [i \in Insts |-> NoArg]
    /\ regRes = [i \in Insts |-> NoRes]
    /\ issued = <<>>
    /\ nOps = 0
    /\ nRestarts = 0

AgInitVars ==
    /\ ag = AgOff
    /\ turn = NoTurn
    /\ agWrote = {}

NoHist ==
    [nOk |-> 0, nErr |-> 0, nCut |-> 0, nTurns |-> 0, nRuns |-> 0,
     turnCap |-> 0, runCap |-> 0, maxIn |-> {}, respIn |-> "none", tmplIn |-> {},
     okGoals |-> <<>>, okAchievements |-> <<>>]

FreshWorkDir ==
    /\ lifeDirs = [n \in AllNames |-> NoDir]
    /\ backups = <<>>
    /\ indexFile = NoIndexFile
    /\ \/ link = NoLink /\ legacyDir = NoDir
       \/ link = [kind |-> "dir", target |-> NoName] /\ legacyDir \in LegacyDirs

\* The work directory after create_life("alpha") on a fresh one.
AlphaIndex == CreateIndex(FreshIndex, "alpha", NextLifeNumber(FreshIndex))

AlphaWorkDir ==
    /\ lifeDirs = [n \in AllNames |->
                     IF n = "alpha"
                     THEN [exists |-> TRUE, meta |-> NextLifeNumber(FreshIndex),
                           state |-> ZeroState, hasDiary |-> TRUE, diary |-> <<>>]
                     ELSE NoDir]
    /\ backups = <<>>
    /\ indexFile = AlphaIndex
    /\ link = [kind |-> "symlink", target |-> "alpha"]
    /\ legacyDir = NoDir

\* The life "alpha" after an agent ran one turn in it on a response with an
\* action that asked to go on, with max_iterations=1: the entries of run
\* and run_iteration, and the snapshot of line 317.
LivedDiary ==
    [k \in 1..9 |->
        IF k = 9
        THEN [phase |-> "ITERATION_END", iteration |-> 1, will_continue |-> TRUE]
        ELSE [phase |-> <<"SYSTEM_START", "ITERATION_START", "PROMPT_GENERATED",
                         "RESPONSE_RECEIVED", "THINKING", "ACTION", "REFLECTION",
                         "NEXT_GOAL">>[k],
              iteration |-> 0]]

LivedAlpha ==
    [exists |-> TRUE, meta |-> NextLifeNumber(FreshIndex),
     state |-> UpdateState(ZeroState, GoOn), hasDiary |-> TRUE,
     diary |-> LivedDiary]

LivedWorkDir ==
    /\ lifeDirs = [n \in AllNames |-> IF n = "alpha" THEN LivedAlpha ELSE NoDir]
    /\ backups = <<>>
    /\ indexFile = AlphaIndex
    /\ link = [kind |-> "symlink", target |-> "alpha"]
    /\ legacyDir = NoDir

\* The work directory after a create_life("alpha") whose symlink_to (line
\* 134) found my_space made again by an agent that started in between
\* (__init__, line 40): the life and its index entry are written, my_space
\* is the agent's plain directory.
RacedWorkDir ==
    /\ lifeDirs = [n \in AllNames |->
                     IF n = "alpha"
                     THEN [exists |-> TRUE, meta |-> NextLifeNumber(FreshIndex),
                           state |-> ZeroState, hasDiary |-> TRUE, diary |-> <<>>]
                     ELSE NoDir]
    /\ backups = <<>>
    /\ indexFile = AlphaIndex
    /\ link = [kind |-> "dir", target |-> NoName]
    /\ legacyDir \in LegacyDirs

vars == <<lifeDirs, link, legacyDir, backups, indexFile,
          regIndex, regPc, regArg, regRes, regPre, issued, nOps, nRestarts, opCap,
          ag, turn, hist, agWrote>>

\* One registry object at a time, restarted at will: the command line.
InitRegistry ==
    /\ FreshWorkDir \/ RacedWorkDir \/ LivedWorkDir
    /\ RegInitVars
    /\ regPre = [i \in Insts |-> Snapshot(i)]
    /\ opCap = MaxRegOps
    /\ AgInitVars
    /\ hist = NoHist

NextRegistry == RegStep("cli")

SpecRegistry == InitRegistry /\ [][NextRegistry]_vars

\* The agent alone, started any number of times on the life "alpha" that the
\* registry created, or on a work directory without lives.
InitEngine ==
    /\ \/ AlphaWorkDir
       \/ FreshWorkDir /\ link = NoLink
    /\ RegInitVars
    /\ regPre = [i \in Insts |-> Snapshot(i)]
    /\ opCap = 0
    /\ AgInitVars
    /\ hist = [NoHist EXCEPT !.turnCap = MaxTurns, !.runCap = MaxRuns,
                             !.maxIn = MaxIterInputs, !.respIn = "values",
                             !.tmplIn = {DefaultTemplate, CustomTemplate}]

NextEngine == AgStep

SpecEngine == InitEngine /\ [][NextEngine]_vars

\* The agent started again and again on the life "alpha" or on a work
\* directory without lives: each process loads the snapshot the one before
\* it left (main, lines 395-406).
InitRestarts ==
    /\ \/ AlphaWorkDir
       \/ FreshWorkDir /\ link = NoLink
    /\ RegInitVars
    /\ regPre = [i \in Insts |-> Snapshot(i)]
    /\ opCap = 0
    /\ AgInitVars
    /\ hist = [NoHist EXCEPT !.turnCap = MaxTurns, !.runCap = MaxLifeRuns,
                             !.maxIn = MaxIterInputs, !.respIn = "values",
                             !.tmplIn = {DefaultTemplate, CustomTemplate}]

NextRestarts == AgStep

SpecRestarts == InitRestarts /\ [][NextRestarts]_vars

\* One turn of the agent on the life "alpha", for every response of up to
\* MaxSegments segments: extract_json_from_response applied at line 259.
InitParser ==
    /\ AlphaWorkDir
    /\ RegInitVars
    /\ regPre = [i \in Insts |-> Snapshot(i)]
    /\ opCap = 0
    /\ AgInitVars
    /\ hist = [NoHist EXCEPT !.turnCap = 1, !.runCap = 1,
                             !.maxIn = {NoMax}, !.respIn = "texts",
                             !.tmplIn = {DefaultTemplate}]

NextParser ==
    \/ AgStart
    \/ AgInitLink
    \/ AgInitMkdir
    \/ AgInitDiaryCheck
    \/ AgInitLoad
    \/ AgRunStart
    \/ AgIterStart
    \/ AgPrompt
    \/ AgBackendOk
    \/ AgResponse
    \/ AgThinking
    \/ AgAction
    \/ AgReflection
    \/ AgNextGoal
    \/ AgUpdate
    \/ AgSaveOpen
    \/ AgSave
    \/ AgIterEnd
    \/ AgErrorIn
    \/ AgLoop
    \/ AgSleep
    \/ AgExit

SpecParser == InitParser /\ [][NextParser]_vars

\* The readers of a diary: the life "alpha" with a diary of up to
\* MaxDiaryLines lines, of which up to MaxBadLines are malformed; the agent
\* runs a turn on it, whose generate_prompt reads the recent diary, and the
\* command line reads the diary with read_life_diary.
MaxDiaryLines == 9

MaxBadLines == 2

DiaryInputs ==
    UNION {{[k \in 1..n |-> IF k \in bad THEN BadLine
                            ELSE [phase |-> "THINKING", iteration |-> k]] :
               bad \in {b \in SUBSET (1..n) : Cardinality(b) <= MaxBadLines}} :
           n \in 0..MaxDiaryLines}

InitDiary ==
    /\ \E diary \in DiaryInputs :
          lifeDirs = [n \in AllNames |->
                        IF n = "alpha"
                        THEN [exists |-> TRUE, meta |-> NextLifeNumber(FreshIndex),
                              state |-> ZeroState, hasDiary |-> TRUE,
                              diary |-> diary]
                        ELSE NoDir]
    /\ backups = <<>>
    /\ indexFile = AlphaIndex
    /\ link = [kind |-> "symlink", target |-> "alpha"]
    /\ legacyDir = NoDir
    /\ RegInitVars
    /\ regPre = [i \in Insts |-> Snapshot(i)]
    /\ opCap = 0
    /\ AgInitVars
    /\ hist = [NoHist EXCEPT !.turnCap = 1, !.runCap = 1,
                             !.maxIn = {NoMax}, !.respIn = "acting",
                             !.tmplIn = {DefaultTemplate}]

NextDiary ==
    \/ AgStart
    \/ AgInitLink
    \/ AgInitMkdir
    \/ AgInitDiaryCheck
    \/ AgInitLoad
    \/ AgRunStart
    \/ AgIterStart
    \/ AgPrompt
    \/ AgBackendOk
    \/ AgResponse
    \/ AgThinking
    \/ AgAction
    \/ AgReflection
    \/ AgNextGoal
    \/ AgUpdate
    \/ AgSaveOpen
    \/ AgSave
    \/ AgIterEnd
    \/ AgLoop
    \/ AgSleep
    \/ AgExit
    \/ RegReadDiary("cli")

SpecDiary == InitDiary /\ [][NextDiary]_vars

\* The agent and the command-line registry as concurrent processes on one
\* work directory: the registry creates and switches lives while the agent
\* starts, runs its turns and exits, and is then started a second time.
\* (OSErrors, interrupts, deletes and registry restarts are left to
\* SpecEngine and SpecRegistry.)
AgRunStep ==
    \/ AgStart
    \/ AgInitLink
    \/ AgInitMkdir
    \/ AgInitDiaryCheck
    \/ AgInitDiaryWrite
    \/ AgInitLoad
    \/ AgRunStart
    \/ AgIterStart
    \/ AgPrompt
    \/ AgBackendOk
    \/ AgBackendFail
    \/ AgResponse
    \/ AgThinking
    \/ AgAction
    \/ AgReflection
    \/ AgNextGoal
    \/ AgUpdate
    \/ AgSaveOpen
    \/ AgSave
    \/ AgIterEnd
    \/ AgErrorIn
    \/ AgLoop
    \/ AgSleep
    \/ AgErrorOut
    \/ AgExit

RegLifeStep(i) ==
    \/ RegCreateCall(i)
    \/ RegCreateExists(i)
    \/ RegCreateMkdir(i)
    \/ RegCreateMeta(i)
    \/ RegCreateState(i)
    \/ RegCreateDiary(i)
    \/ RegCreateIndex(i)
    \/ RegSwitchCall(i)
    \/ RegSetUnlink(i)
    \/ RegSetSymlink(i)
    \/ RegSetIndex(i)
    \/ RegSaveIndex(i)

Init ==
    /\ FreshWorkDir /\ link = NoLink
    /\ RegInitVars
    /\ regPre = [i \in Insts |-> Snapshot(i)]
    /\ opCap = MaxLoopOps
    /\ AgInitVars
    /\ hist = [NoHist EXCEPT !.turnCap = MaxLoopTurns, !.runCap = MaxLoopRuns,
                             !.maxIn = {NoMax},
                             !.respIn = "acting",
                             !.tmplIn = {DefaultTemplate}]

Next == AgRunStep \/ RegLifeStep("cli")

Spec == Init /\ [][Next]_vars

\* Two registry objects on one work directory: the dashboard's manager,
\* made once when the module is imported (web_dashboard.py line 22) and
\* serving create and switch from the index it loaded then, and the command
\* line, which makes a new object for every invocation.  Their statements
\* interleave.
InitShared ==
    /\ \/ FreshWorkDir /\ link = NoLink
       \/ AlphaWorkDir
    /\ RegInitVars
    /\ regPre = [i \in Insts |-> Snapshot(i)]
    /\ opCap = MaxSharedOps
    /\ AgInitVars
    /\ hist = NoHist

NextShared == RegStep("cli") \/ RegLifeStep("dash")

SpecShared == InitShared /\ [][NextShared]_vars

\* ================================================================== claims
IsPrefix(s, t) == Len(s) <= Len(t) /\ SubSeq(t, 1, Len(s)) = s

\* the entries my_space/diary.jsonl has gained since the turn began
TurnEntries == SubSeq(LinkDir.diary, Len(turn.preDiary) + 1, Len(LinkDir.diary))

\* run_iteration has returned, or no turn is in progress
TurnBoundary == ag.pc = "ret" \/ ~turn.active

\* C1 (as claimed): with every turn either completed through ITERATION_END
\* or ended in ERROR, the iteration of the snapshot file equals the number
\* of turns completed through ITERATION_END.
C1_IterationCountsCompletedTurns ==
    (TurnBoundary /\ hist.nCut = 0 /\ LinkDir.state.kind = "ok")
    => LinkDir.state.iteration = hist.nOk

\* C2: when the backend call of a turn has failed and run_iteration has
\* returned, the diary has gained exactly ITERATION_START, PROMPT_GENERATED
\* and ERROR, all with the turn's iteration; self.state and the snapshot
\* file are as before the turn; the value returned is False.
C2_BackendFailure ==
    (ag.pc = "ret" /\ turn.fail = "backend")
    => /\ IsPrefix(turn.preDiary, LinkDir.diary)
       /\ TurnEntries = << [phase |-> "ITERATION_START", iteration |-> turn.iter],
                           [phase |-> "PROMPT_GENERATED", iteration |-> turn.iter],
                           [phase |-> "ERROR", iteration |-> turn.iter] >>
       /\ ag.state = turn.preState
       /\ LinkDir.state = turn.preSnap
       /\ ag.ret = FALSE

\* C2 witness: the backend call of the second turn of a run has failed.
C2_Witness ==
    /\ ag.pc = "ret"
    /\ turn.fail = "backend"
    /\ turn.iter = 1
    /\ Len(LinkDir.diary) > 3

\* C3 (as claimed): every entry a turn has written carries the iteration
\* self.state had when the turn began.
C3_TurnSharesIteration ==
    (turn.active /\ Resolves /\ IsPrefix(turn.preDiary, LinkDir.diary))
    => \A k \in 1..Len(TurnEntries) : TurnEntries[k].iteration = turn.iter

\* C4 (as claimed): the diary of a life that exists before and after a step
\* is, after the step, an extension of what it was before.
C4_DiaryOnlyGrows ==
    [][\A n \in AllNames :
          (lifeDirs[n].exists /\ lifeDirs'[n].exists)
          => IsPrefix(lifeDirs[n].diary, lifeDirs'[n].diary)]_vars

\* C5 (as claimed): an agent that found my_space linking to life A when it
\* started, and has written to A's directory, writes its diary entries and
\* snapshots to A's directory only, whatever my_space is repointed to
\* meanwhile.
C5_LoopStaysHome ==
    (ag.reinc /\ ag.life \in agWrote) => agWrote \subseteq {ag.life}

\* The registry call that instance i finished last, when it is not inside
\* a call: regRes[i] is its outcome and regPre[i] what it found.
Finished(i, op) == regPc[i] = "idle" /\ regRes[i].op = op

\* C6 (as claimed): at every instant of a create or switch that began with
\* my_space linking to a life, my_space is a link to a life directory whose
\* metadata, snapshot and diary are all written.
C6_ReaderAlwaysResolves ==
    \A i \in Insts :
        (/\ regPc[i] # "idle"
         /\ regArg[i].op \in {"create", "switch"}
         /\ regPre[i].link.kind = "symlink")
        => /\ link.kind = "symlink"
           /\ Initialised(lifeDirs[link.target])

\* C7: the numbers given to lives are strictly increasing in the order of
\* creation, whatever was deleted in between.
C7_NumbersIncrease ==
    \A j, k \in 1..Len(issued) :
        j < k => issued[j].number < issued[k].number

\* C7 witness: a name created, deleted and created again.
C7_Witness ==
    \E j, k \in 1..Len(issued) :
        /\ j < k
        /\ issued[j].name = issued[k].name
        /\ lifeDirs[issued[k].name].meta = issued[k].number

\* C8 (as claimed): delete of the current life fails with
\* CurrentLifeProtectedError whatever confirm is, and the life is intact.
C8_DeleteCurrentProtected ==
    \A i \in Insts :
        (Finished(i, "delete") /\ regRes[i].name = regPre[i].index.current_life)
        => /\ regRes[i].outcome = "CurrentLifeProtected"
           /\ lifeDirs[regRes[i].name] = regPre[i].lifeDirs[regRes[i].name]
           /\ regIndex[i] = regPre[i].index

\* C8 (amended): delete of the current life fails with
\* CurrentLifeProtectedError when confirm is true and with
\* ConfirmationRequiredError when it is false; the life's directory and the
\* index are as before.
C8_DeleteCurrentFails ==
    \A i \in Insts :
        (Finished(i, "delete") /\ regRes[i].name = regPre[i].index.current_life)
        => /\ regRes[i].outcome =
                IF regRes[i].confirm THEN "CurrentLifeProtected"
                ELSE "ConfirmationRequired"
           /\ lifeDirs[regRes[i].name] = regPre[i].lifeDirs[regRes[i].name]
           /\ lifeDirs[regRes[i].name].exists
           /\ regIndex[i] = regPre[i].index
           /\ indexFile = regPre[i].indexFile
           /\ regRes[i].name \in DOMAIN indexFile.lives

\* C8 witness: a confirmed delete of the current life has been refused.
C8_Witness ==
    \E i \in Insts :
        /\ Finished(i, "delete")
        /\ regRes[i].confirm
        /\ regRes[i].name = regPre[i].index.current_life
        /\ regRes[i].outcome = "CurrentLifeProtected"

\* C9: delete without confirmation fails with ConfirmationRequiredError for
\* every name and changes neither the directories, the index nor my_space.
C9_DeleteUnconfirmed ==
    \A i \in Insts :
        (Finished(i, "delete") /\ ~regRes[i].confirm)
        => /\ regRes[i].outcome = "ConfirmationRequired"
           /\ lifeDirs = regPre[i].lifeDirs
           /\ indexFile = regPre[i].indexFile
           /\ regIndex[i] = regPre[i].index
           /\ link = regPre[i].link
           /\ legacyDir = regPre[i].legacyDir

\* C9 witness: unconfirmed deletes of an unknown name, of the current life
\* and of another indexed life are all among the calls; this is the last.
C9_Witness ==
    \E i \in Insts :
        /\ Finished(i, "delete")
        /\ ~regRes[i].confirm
        /\ regRes[i].name \in DOMAIN regIndex[i].lives
        /\ regRes[i].name # regIndex[i].current_life

\* C10: after a successful create the index counts one life more, names the
\* new life as current, my_space links to its directory, and the directory
\* holds an empty diary and the zero snapshot.
C10_CreatePost ==
    \A i \in Insts :
        (Finished(i, "create") /\ regRes[i].outcome = "ok")
        => LET name == regRes[i].name
               before == IF regPre[i].indexFile.kind = "ok"
                         THEN regPre[i].indexFile.total_lives ELSE 0
           IN /\ indexFile.kind = "ok"
              /\ indexFile.total_lives = before + 1
              /\ regIndex[i].total_lives = regPre[i].index.total_lives + 1
              /\ indexFile.current_life = name
              /\ name \in DOMAIN indexFile.lives
              /\ link = [kind |-> "symlink", target |-> name]
              /\ lifeDirs[name].exists
              /\ lifeDirs[name].hasDiary
              /\ lifeDirs[name].diary = <<>>
              /\ lifeDirs[name].state = ZeroState

\* C10 witness: create("alpha") on a fresh registry: total_lives = 1.
C10_Witness ==
    \E i \in Insts :
        /\ Finished(i, "create")
        /\ regRes[i].outcome = "ok"
        /\ regRes[i].name = "alpha"
        /\ regPre[i].indexFile.kind = "none"
        /\ indexFile.total_lives = 1
        /\ indexFile.current_life = "alpha"

\* ---- the parser
\* the step of run_iteration that parses the response (line 259)
ParseStep == ag.pc = "think" /\ ag'.pc # "think"

\* the content of a segment is the text of a JSON object
HoldsRecord(seg) == seg.c.k = "json" /\ seg.c.v.isDict

\* the last segment of segs whose kind is in kinds and that satisfies
\* HoldsRecord when records is asked for; 0 when there is none
LastOf(segs, kinds, records) ==
    LET S == {i \in 1..Len(segs) :
                (segs[i].kind \in kinds) /\ (records => HoldsRecord(segs[i]))}
    IN IF S = {} THEN 0 ELSE CHOOSE i \in S : \A j \in S : j <= i

\* C12 (as claimed): whatever the response, extract_json_from_response
\* returns a record (a JSON object), whose fields run_iteration can read.
C12_ParseTotal ==
    [][ParseStep => ag'.resp.isDict]_vars

\* C13 (as claimed): when the response has blocks fenced by ```json and the
\* last of them holds a record, extract_json_from_response returns that
\* record.
C13_LastTaggedBlock ==
    [][LET last == LastOf(ag.response, {"tagged"}, FALSE)
       IN (ParseStep /\ last # 0 /\ HoldsRecord(ag.response[last]))
          => ag'.resp = ag.response[last].c.v]_vars

\* C14 (as claimed): when no block fenced by ```json holds a record and
\* some closed block fenced by ``` holds one after its first line,
\* extract_json_from_response returns the record of the last such block.
C14_LastGenericBlock ==
    [][LET last == LastOf(ag.response, {"generic", "generic_lang"}, TRUE)
       IN (ParseStep /\ LastOf(ag.response, {"tagged"}, TRUE) = 0 /\ last # 0)
          => ag'.resp = ag.response[last].c.v]_vars

\* ---- the turn and the loop
\* C11 (as claimed): between turns, the goals and achievements of the
\* snapshot file are the last at most 10 non-empty next_goal and reflection
\* values of the turns completed through ITERATION_END, oldest first, and
\* never more than 10.
C11_LastTenOfCompleted ==
    (TurnBoundary /\ hist.nCut = 0 /\ LinkDir.state.kind = "ok")
    => /\ LinkDir.state.goals = Last10(hist.okGoals)
       /\ LinkDir.state.achievements = Last10(hist.okAchievements)
       /\ Len(LinkDir.state.goals) <= 10
       /\ Len(LinkDir.state.achievements) <= 10

\* C15 (as claimed): at every moment state.json, where it exists, holds a
\* complete snapshot, so that a reader never finds it half-written.
C15_SnapshotNeverTorn ==
    /\ \A n \in AllNames : lifeDirs[n].state.kind # "torn"
    /\ legacyDir.state.kind # "torn"

\* C16 (as claimed): at every moment index.json, where it exists, holds a
\* complete index, so that a reader never finds it empty or partial.
C16_IndexNeverTorn ==
    indexFile.kind # "torn"

Phases(entries) == [k \in 1..Len(entries) |-> entries[k].phase]

\* C17: when run_iteration has returned from a turn in which nothing failed,
\* the diary has gained exactly the eight entries ITERATION_START,
\* PROMPT_GENERATED, RESPONSE_RECEIVED, THINKING, ACTION, REFLECTION,
\* NEXT_GOAL, ITERATION_END, in this order, whatever the response holds.
C17_EightEntries ==
    (ag.pc = "ret" /\ turn.fail = "none")
    => /\ IsPrefix(turn.preDiary, LinkDir.diary)
       /\ Phases(TurnEntries) =
            <<"ITERATION_START", "PROMPT_GENERATED", "RESPONSE_RECEIVED",
              "THINKING", "ACTION", "REFLECTION", "NEXT_GOAL", "ITERATION_END">>

\* C17 witness: the second turn of a run has completed on a response whose
\* action, next_goal and reflection are empty.
C17_Witness ==
    /\ ag.pc = "ret"
    /\ turn.fail = "none"
    /\ turn.iter = 1
    /\ ag.resp = Empty

\* C18: once something has failed in a turn of a run, that run begins no
\* further turn (no ITERATION_START is attempted) and never again stands
\* before a backend call.
C18_NoRetry ==
    [][(turn.fail # "none" /\ ag.pc # "off")
       => /\ hist'.nTurns = hist.nTurns
          /\ ag'.pc \notin {"it_start", "prompt", "call"}]_vars

\* C18 witness: a run without an iteration limit is leaving the loop after
\* a failed backend call, with turns still to spare.
C18_Witness ==
    /\ ag.pc = "exit"
    /\ turn.fail = "backend"
    /\ ag.max = NoMax
    /\ hist.nTurns < hist.turnCap

\* C19 (as claimed): a run that has left the loop, or ended, after a failure
\* in a turn has written exactly one ERROR entry for that failure.
C19_FailureDiarized ==
    (ag.pc \in {"exit", "off"} /\ turn.fail # "none") => turn.errs = 1

\* C20 (as claimed): a turn in which rendering the configured template
\* failed does not end in ERROR, and the loop does not exit because of it.
C20_TemplateFallback ==
    ~(/\ turn.fail = "template"
      /\ ag.pc = "exit"
      /\ LinkDir.diary # <<>>
      /\ LinkDir.diary[Len(LinkDir.diary)].phase = "ERROR")

\* ---- cancellation and the end of a run
\* the run has left its loop and nothing but a cancellation can have cut
\* its last turn: no statement of the turn has failed
LoopLeftUnfailed == ag.pc = "exit" /\ turn.fail = "none" /\ Resolves

\* C21 (as claimed): a run that leaves its loop without a failure has no
\* last turn that wrote ITERATION_START and neither ITERATION_END nor ERROR,
\* and self.state is what state.json holds: a KeyboardInterrupt during a
\* turn does not cut it short.
C21_CancelOnlyBetweenTurns ==
    (/\ LoopLeftUnfailed
     /\ IsPrefix(turn.preDiary, LinkDir.diary)
     /\ TurnEntries # <<>>
     /\ TurnEntries[1].phase = "ITERATION_START")
    => /\ \E k \in 1..Len(TurnEntries) :
             TurnEntries[k].phase \in {"ITERATION_END", "ERROR"}
       /\ ag.state = LinkDir.state

\* the entries of a diary with the given phase
WithPhase(entries, phase) == SelectSeq(entries, LAMBDA e : e.phase = phase)

\* C22 (as claimed): when a run has left its loop without a failure (the
\* turn returned False, max_iterations was reached, or KeyboardInterrupt),
\* the diary ends with SYSTEM_STOP, and it holds one SYSTEM_START and one
\* SYSTEM_STOP for each run.
C22_RunBracketed ==
    LoopLeftUnfailed
    => /\ LinkDir.diary # <<>>
       /\ LinkDir.diary[Len(LinkDir.diary)].phase = "SYSTEM_STOP"
       /\ Len(WithPhase(LinkDir.diary, "SYSTEM_START")) = hist.nRuns
       /\ Len(WithPhase(LinkDir.diary, "SYSTEM_STOP")) = hist.nRuns

\* the part of C22 the code keeps: after a KeyboardInterrupt the diary ends
\* with SYSTEM_STOP
C22_StopAfterInterrupt ==
    [][(ag.pc = "intr" /\ ag'.pc = "exit")
       => LinkDir'.diary[Len(LinkDir'.diary)].phase = "SYSTEM_STOP"]_vars

\* ---- switch, create on a taken name, the plain directory at my_space
\* C23: switch_to_life of a name that is not in the index raises
\* (NotFound) and leaves my_space, index.json, self.index and the
\* directories as they were; switch_to_life of an indexed name ends with
\* my_space linking to lives/<name>, current_life equal to the name in
\* self.index and in index.json, and lives and total_lives unchanged.
C23_Switch ==
    \A i \in Insts :
        Finished(i, "switch")
        => LET name == regRes[i].name
               pre == regPre[i]
           IN IF name \notin DOMAIN pre.index.lives
              THEN /\ regRes[i].outcome = "NotFound"
                   /\ link = pre.link
                   /\ indexFile = pre.indexFile
                   /\ regIndex[i] = pre.index
                   /\ lifeDirs = pre.lifeDirs
                   /\ legacyDir = pre.legacyDir
              ELSE /\ regRes[i].outcome = "ok"
                   /\ link = [kind |-> "symlink", target |-> name]
                   /\ lifeDirs[name].exists
                   /\ regIndex[i].current_life = name
                   /\ indexFile = regIndex[i]
                   /\ regIndex[i].lives = pre.index.lives
                   /\ regIndex[i].total_lives = pre.index.total_lives
                   /\ lifeDirs = pre.lifeDirs

\* C23 witnesses: a switch to a life that was not current has succeeded;
\* a switch to a name that was deleted before has been refused.
C23_Witness ==
    \E i \in Insts :
        /\ Finished(i, "switch")
        /\ regRes[i].outcome = "ok"
        /\ regPre[i].index.current_life # regRes[i].name
        /\ regPre[i].link.kind = "symlink"
        /\ regPre[i].link.target # regRes[i].name

C23_WitnessUnknown ==
    \E i \in Insts :
        /\ Finished(i, "switch")
        /\ regRes[i].outcome = "NotFound"
        /\ \E k \in 1..Len(issued) : issued[k].name = regRes[i].name

\* C24: create_life with a name whose directory exists raises
\* (AlreadyExists) and leaves index.json, self.index (lives, total_lives,
\* current_life), my_space and every life directory, diary and snapshot
\* included, as they were.
C24_CreateCollision ==
    \A i \in Insts :
        (Finished(i, "create") /\ regRes[i].name \in DOMAIN regPre[i].index.lives)
        => /\ regRes[i].outcome = "AlreadyExists"
           /\ indexFile = regPre[i].indexFile
           /\ regIndex[i] = regPre[i].index
           /\ link = regPre[i].link
           /\ lifeDirs = regPre[i].lifeDirs
           /\ legacyDir = regPre[i].legacyDir
           /\ backups = regPre[i].backups

\* C24 witness: a create with the name of the current life has been
\* refused while another life exists as well.
C24_Witness ==
    \E i \in Insts :
        /\ Finished(i, "create")
        /\ regRes[i].outcome = "AlreadyExists"
        /\ regRes[i].name = regIndex[i].current_life
        /\ regIndex[i].total_lives = 2

\* C25: a create_life or switch_to_life that found my_space a plain
\* directory and has returned has moved that directory, content unchanged,
\* to a new backup, has left the earlier backups as they were, and my_space
\* is a link to the life chosen.
C25_LegacyBackedUp ==
    \A i \in Insts :
        (/\ regPc[i] = "idle"
         /\ regRes[i].op \in {"create", "switch"}
         /\ regRes[i].outcome = "ok"
         /\ regPre[i].link.kind = "dir")
        => /\ backups = Append(regPre[i].backups, regPre[i].legacyDir)
           /\ link = [kind |-> "symlink", target |-> regRes[i].name]
           /\ lifeDirs[regRes[i].name].exists

\* C25 witnesses: a create, and a switch, that found a plain directory
\* holding a snapshot.
C25_Witness ==
    \E i \in Insts :
        /\ Finished(i, "create")
        /\ regRes[i].outcome = "ok"
        /\ regPre[i].link.kind = "dir"
        /\ regPre[i].legacyDir.state.kind = "ok"
        /\ Len(backups) = 1

C25_WitnessSwitch ==
    \E i \in Insts :
        /\ Finished(i, "switch")
        /\ regRes[i].outcome = "ok"
        /\ regPre[i].link.kind = "dir"
        /\ regPre[i].legacyDir.state.kind = "ok"
        /\ Len(backups) = 1

\* ---- the default record, the counters, the continuation of the loop
EightPhases ==
    <<"ITERATION_START", "PROMPT_GENERATED", "RESPONSE_RECEIVED",
      "THINKING", "ACTION", "REFLECTION", "NEXT_GOAL", "ITERATION_END">>

\* no block and not the whole response can be parsed
NothingParses(text) ==
    ~TaggedBlock(text).ok /\ ~GenericBlock(text).ok /\ ~WholeResponse(text).ok

\* C28: when neither a block nor the whole response can be parsed,
\* extract_json_from_response returns the default record (no action,
\* continue False) and the turn goes on: from there no handler is entered,
\* the turn returns having written its eight entries, the last one
\* ITERATION_END with will_continue false, no ERROR, iteration one more in
\* self.state and in state.json, the value returned False; and run then
\* leaves the loop.
C28_DefaultAbsorbed ==
    [][/\ (ParseStep /\ NothingParses(Render(ag.response)))
          => (ag'.resp = DefaultResponse /\ ag'.pc = "action")
       /\ (ag.resp = DefaultResponse /\ ag.pc \in TryPcs)
          => ag'.pc \in TryPcs \cup {"ret"}
       /\ (ag.resp = DefaultResponse /\ ag'.pc = "ret")
          => /\ turn'.fail = "none" /\ turn'.errs = 0
             /\ Phases(TurnEntries') = EightPhases
             /\ TurnEntries'[8].will_continue = FALSE
             /\ TurnEntries'[8].iteration = turn.iter + 1
             /\ ag'.state.iteration = turn.iter + 1
             /\ LinkDir'.state = ag'.state
             /\ ag'.state.total_actions = turn.preState.total_actions
             /\ ag'.ret = FALSE
       /\ (ag.resp = DefaultResponse /\ ag.pc = "ret") => ag'.pc = "exit"]_vars

\* C28 witness: the loop has been left after a turn on a response that
\* could not be parsed: the diary holds SYSTEM_START and the eight entries.
C28_Witness ==
    /\ ag.pc = "exit"
    /\ ag.resp = DefaultResponse
    /\ Len(LinkDir.diary) = 9
    /\ LinkDir.state.iteration = 1

\* C29: when run_iteration has returned from a turn in which nothing
\* failed, total_thoughts is one more than before the turn; total_actions
\* is one more and last_action is the action of the response when that
\* action is non-empty, and both are as before the turn when it is empty;
\* state.json holds the same.
C29_Counters ==
    (ag.pc = "ret" /\ turn.fail = "none")
    => /\ ag.state.total_thoughts = turn.preState.total_thoughts + 1
       /\ IF ag.resp.action # 0
          THEN /\ ag.state.total_actions = turn.preState.total_actions + 1
               /\ ag.state.last_action = ag.resp.action
          ELSE /\ ag.state.total_actions = turn.preState.total_actions
               /\ ag.state.last_action = turn.preState.last_action
       /\ LinkDir.state = ag.state

\* C29 witness: a turn without an action has completed after a turn with
\* one.
C29_Witness ==
    /\ ag.pc = "ret"
    /\ turn.fail = "none"
    /\ ag.resp.action = 0
    /\ turn.preState.last_action # 0
    /\ ag.state.total_thoughts = 2

\* a maximum was given to run and the turn just counted reaches it
MaxReached(m, n) == m # NoMax /\ n >= m

\* C30 (as claimed): when the loop goes on or ends after a completed turn,
\* it goes on to another turn exactly when the response's continue is true
\* or absent and the maximum given, whatever it is, is not reached; the
\* will_continue of the turn's ITERATION_END is the value returned.
C30_ContinueIff ==
    [][(ag.pc = "ret" /\ turn.fail = "none" /\ ag'.pc \in {"sleep", "exit"})
       => /\ (ag'.pc = "sleep")
             <=> (/\ ag.resp.cont \in {"true", "absent"}
                  /\ ~MaxReached(ag.max, ag'.count))
          /\ LinkDir.diary[Len(LinkDir.diary)].will_continue = ag.ret]_vars

\* the part of C30 the code keeps: the same for a maximum of 1 or more, or
\* none
C30_ContinueIffPositiveMax ==
    [][(ag.pc = "ret" /\ turn.fail = "none" /\ ag'.pc \in {"sleep", "exit"}
        /\ ag.max # 0)
       => /\ (ag'.pc = "sleep")
             <=> (/\ ag.resp.cont \in {"true", "absent"}
                  /\ ~MaxReached(ag.max, ag'.count))
          /\ LinkDir.diary[Len(LinkDir.diary)].will_continue = ag.ret]_vars

\* ---- reading: compare_lives and the tail of a diary
\* C27 (as claimed): the keys compare_lives returns are exactly the names
\* asked that are lives of the index; a name that was never created, or
\* was deleted, is left out, and no key is a name that is no life.
C27_CompareKeys ==
    \A i \in Insts :
        Finished(i, "compare")
        => regRes[i].keys = regRes[i].asked \cap DOMAIN regIndex[i].lives

\* the part of C27 the code keeps: the same for names that are not files
\* of the registry itself
C27_CompareKeysOfLifeNames ==
    \A i \in Insts :
        (Finished(i, "compare") /\ IndexName \notin regRes[i].asked)
        => regRes[i].keys = regRes[i].asked \cap DOMAIN regIndex[i].lives

\* a compare that asked for a deleted life and for one that exists
C27_DeletedLeftOut ==
    \E i \in Insts :
        /\ Finished(i, "compare")
        /\ IndexName \notin regRes[i].asked
        /\ regRes[i].keys = {"alpha"}
        /\ \E k \in 1..Len(issued) : issued[k].name = AutoName(1)

\* the last limit of the lines of a diary that parse, in file order (all
\* of them when there are fewer)
TailValid(diary, limit) ==
    LET valid == SelectSeq(diary, ValidLine)
    IN IF Len(valid) <= limit THEN valid
       ELSE SubSeq(valid, Len(valid) - limit + 1, Len(valid))

\* C26 (as claimed): what generate_prompt gets from read_recent_diary, and
\* what read_life_diary returns, is the last limit entries among the lines
\* of the diary that parse, wherever the malformed lines are; so both give
\* the same for the same file and limit.
C26_TailOfValidEntries ==
    [][/\ (ag.pc = "prompt" /\ ag'.pc = "call")
          => turn'.recent = TailValid(LinkDir.diary, 10)
       /\ \A i \in Insts :
            (regRes'[i] # regRes[i] /\ regRes'[i].op = "diary")
            => regRes'[i].entries =
                 TailValid(lifeDirs[regRes'[i].name].diary, regRes'[i].limit)]_vars

\* the part of C26 the code keeps: read_life_diary returns that tail
C26_RegistryTail ==
    \A i \in Insts :
        Finished(i, "diary")
        => regRes[i].entries =
             TailValid(regPre[i].lifeDirs[regRes[i].name].diary, regRes[i].limit)

\* ---- the maximum, and cancellation
\* C31 (as claimed): a run given a maximum M, 0 included, is never in a
\* turn beyond its M-th.
C31_AtMostMaxTurns ==
    (ag.max # NoMax /\ turn.active /\ ag.pc \in InTurnPcs)
    => ag.count + 1 <= ag.max

\* the part of C31 the code keeps: the same for a maximum of 1 or more
C31_AtMostPositiveMaxTurns ==
    (ag.max # NoMax /\ ag.max # 0 /\ turn.active /\ ag.pc \in InTurnPcs)
    => ag.count + 1 <= ag.max

\* C32 (as claimed): once KeyboardInterrupt has been raised in a run, no
\* turn starts; when the run then leaves its loop or the process ends, the
\* last entry of the diary is SYSTEM_STOP; and a turn in which nothing had
\* failed gets no ERROR entry.
C32_CancelWritesStop ==
    [][ag.cancelled
       => /\ hist'.nTurns = hist.nTurns
          /\ (ag'.pc \in {"exit", "off"} /\ Resolves')
             => /\ LinkDir'.diary # <<>>
                /\ LinkDir'.diary[Len(LinkDir'.diary)].phase = "SYSTEM_STOP"
          /\ turn.fail = "none" => turn'.errs = 0]_vars

\* the part of C32 the code keeps: a KeyboardInterrupt that reaches run's
\* handler (line 377) is followed by SYSTEM_STOP as the last entry and by
\* the end of the loop, without ERROR
C32_CaughtCancelWritesStop ==
    [][ag.pc = "intr"
       => /\ hist'.nTurns = hist.nTurns
          /\ ag'.pc = "exit"
          /\ LinkDir'.diary[Len(LinkDir'.diary)].phase = "SYSTEM_STOP"
          /\ turn'.errs = turn.errs]_vars

\* ---- the index and my_space
\* current_life of index.json, NoName when there is no readable index
PersistedCurrent ==
    IF indexFile.kind = "ok" THEN indexFile.current_life ELSE NoName

\* the life my_space links to, NoName when my_space is no link
PointerTarget ==
    IF link.kind = "symlink" THEN link.target ELSE NoName

\* C33 (as claimed): when a create_life, switch_to_life or delete_life has
\* returned or raised, current_life of index.json is the life my_space
\* links to, or there is neither.
C33_IndexMatchesPointer ==
    \A i \in Insts :
        (regPc[i] = "idle" /\ regRes[i].op \in {"create", "switch", "delete"})
        => PersistedCurrent = PointerTarget

\* the part of C33 the code keeps: the same after the calls that returned
C33_IndexMatchesPointerOnReturn ==
    \A i \in Insts :
        (/\ regPc[i] = "idle"
         /\ regRes[i].op \in {"create", "switch"}
         /\ regRes[i].outcome = "ok")
        => PersistedCurrent = PointerTarget

\* ---- what a registry call leaves alone, and the index it leaves behind
\* the entries of lives other than name are the same in the two indexes
SameOtherLives(idx, pre, name) ==
    /\ DOMAIN idx.lives \ {name} = DOMAIN pre.lives \ {name}
    /\ \A n \in DOMAIN idx.lives \ {name} : idx.lives[n] = pre.lives[n]

\* C34: a create_life, switch_to_life or delete_life of a life has left
\* the directory of every other life, diary and snapshot included, as it
\* was; and a delete_life that returned has removed the directory of that
\* life and its index entry and nothing else: the other entries,
\* total_lives and current_life are as before, in self.index and in
\* index.json.
C34_OtherLivesUntouched ==
    \A i \in Insts :
        (regPc[i] = "idle" /\ regRes[i].op \in {"create", "switch", "delete"})
        => LET name == regRes[i].name
               pre == regPre[i]
           IN /\ \A y \in AllNames \ {name} : lifeDirs[y] = pre.lifeDirs[y]
              /\ (regRes[i].op = "delete" /\ regRes[i].outcome = "ok")
                 => /\ pre.lifeDirs[name].exists
                    /\ lifeDirs[name] = NoDir
                    /\ name \in DOMAIN pre.index.lives
                    /\ name \notin DOMAIN regIndex[i].lives
                    /\ SameOtherLives(regIndex[i], pre.index, name)
                    /\ regIndex[i].total_lives = pre.index.total_lives
                    /\ regIndex[i].current_life = pre.index.current_life
                    /\ indexFile = regIndex[i]
                    /\ link = pre.link
                    /\ legacyDir = pre.legacyDir

\* C34 witness: a life has been deleted while the life "alpha", with the
\* diary and snapshot of a turn, is the current one.
C34_Witness ==
    \E i \in Insts :
        /\ Finished(i, "delete")
        /\ regRes[i].outcome = "ok"
        /\ regRes[i].name # "alpha"
        /\ lifeDirs["alpha"] = LivedAlpha
        /\ regIndex[i].current_life = "alpha"

\* an index whose current_life is unset or one of its lives, and whose
\* lives all have their directory
IndexSound(idx) ==
    /\ idx.current_life = NoName \/ idx.current_life \in DOMAIN idx.lives
    /\ \A n \in DOMAIN idx.lives : lifeDirs[n].exists

\* C35: between the calls of one registry object (create_life,
\* switch_to_life, delete_life, and new processes that load the index),
\* current_life is unset or a key of lives, and every life of lives has
\* its directory; in index.json and in the self.index of the object.
C35_IndexSound ==
    (\A i \in Insts : regPc[i] = "idle")
    => /\ indexFile.kind = "ok" => IndexSound(indexFile)
       /\ \A i \in Insts : regRes[i].op # "none" => IndexSound(regIndex[i])

\* C35 witness: after a delete that returned, two lives remain and the
\* current one is not the one created last.
C35_Witness ==
    \E i \in Insts :
        /\ Finished(i, "delete")
        /\ regRes[i].outcome = "ok"
        /\ Cardinality(DOMAIN indexFile.lives) = 2
        /\ indexFile.lives[indexFile.current_life] < indexFile.total_lives

\* C38 (as claimed): between the calls of a registry object, the name
\* life_NNN that create_life() would derive for the next number is the name
\* of no existing life directory, so a create without a name is not
\* refused.
C38_DefaultNameFree ==
    \A i \in Insts :
        (/\ regPc[i] = "idle"
         /\ regRes[i].op # "none"
         /\ regIndex[i].total_lives < MaxLives)
        => ~lifeDirs[AutoName(NextLifeNumber(regIndex[i]))].exists

\* the part of C38 the code keeps: a create that was refused has changed
\* neither total_lives nor the directories, so the same create is refused
\* again
C38_RefusedStaysRefused ==
    \A i \in Insts :
        (Finished(i, "create") /\ regRes[i].outcome = "AlreadyExists")
        => /\ NextLifeNumber(regIndex[i]) = regRes[i].number
           /\ lifeDirs[regRes[i].name].exists

\* C36 (as claimed): at every turn boundary of a run on a life the registry
\* created, the iteration of the snapshot file equals the number of
\* ITERATION_END entries in the life's diary.
C36_SnapshotCountsEnds ==
    (/\ TurnBoundary
     /\ link = [kind |-> "symlink", target |-> "alpha"]
     /\ LinkDir.state.kind = "ok")
    => LinkDir.state.iteration = Len(WithPhase(LinkDir.diary, "ITERATION_END"))

\* the part of C36 the code keeps: the same, as long as no turn has ended
\* in ERROR and none was cut short
C36_SnapshotCountsEndsUnfailed ==
    (/\ TurnBoundary
     /\ link = [kind |-> "symlink", target |-> "alpha"]
     /\ LinkDir.state.kind = "ok"
     /\ hist.nErr = 0 /\ hist.nCut = 0 /\ turn.fail = "none")
    => LinkDir.state.iteration = Len(WithPhase(LinkDir.diary, "ITERATION_END"))

NonDecreasing(entries) ==
    \A k \in 1..(Len(entries) - 1) :
        entries[k].iteration <= entries[k + 1].iteration

\* C37 (as claimed): the iteration values of the entries of the diary of
\* life alpha are non-decreasing in file order, whatever turns, failed
\* turns and restarts of the agent have written them.
C37_IterationsNonDecreasing ==
    NonDecreasing(lifeDirs["alpha"].diary)

\* the part of C37 the code keeps: the same for the entries one agent
\* process has written, which is what the diary holds during the first run
C37_NonDecreasingInFirstRun ==
    hist.nRuns <= 1 => NonDecreasing(lifeDirs["alpha"].diary)

\* no registry call is in progress
Quiescent == \A i \in Insts : regPc[i] = "idle"

\* C39 (as claimed): with two registry objects on one work directory, a
\* life that a create has recorded in index.json and that no delete has
\* removed is still recorded there when no call is in progress.
C39_RecordedLivesStay ==
    (Quiescent /\ indexFile.kind = "ok")
    => \A k \in 1..Len(issued) :
          lifeDirs[issued[k].name].exists
          => issued[k].name \in DOMAIN indexFile.lives

\* C40 (as claimed): with two registry objects on one work directory, the
\* directory my_space links to exists, whatever the interleaving of
\* create, switch and delete.
C40_PointerNeverDangles ==
    link.kind = "symlink" => lifeDirs[link.target].exists

====
